---- MODULE Spec2Model ----
(***************************************************************************)
(* Footprint computation of sbib3d: the ray-sampling client of the WGC2    *)
(* calculation service (src/lib/wgc2Footprint.ts).                         *)
(*                                                                         *)
(* One invocation of fetchFootprintPolygon is a sequential process whose   *)
(* suspension points are its awaits: the POST of a new calculation, every  *)
(* status request, every inter-poll sleep, every results request and the   *)
(* resumption of the caller after a ray has resolved or rejected.  The     *)
(* remote service is the environment: every response is drawn from a       *)
(* small set of response shapes.                                           *)
(***************************************************************************)
EXTENDS Integers, Sequences, FiniteSets, TLC

\* ---------------------------------------------------------------- constants

\* wgc2Footprint.ts:82
MAX_POLL_ATTEMPTS == 12

\* fetchFootprintPolygon:512, the least number of intercepts of a polygon
MIN_INTERCEPTS == 3

\* wgc2Footprint.ts 83
POLL_INTERVAL_MS == 5000

\* fetchFootprintPolygon:522, kilometres to metres
KM_TO_M == 1000

\* Largest samplesPerEdge an invocation is started with.
MaxSamplesPerEdge == 1

\* Largest samplesPerEdge the ray directions are generated for.
MaxGenSamples == 4

\* The invocations of fetchFootprintPolygon the model holds.
Procs == {1, 2}

\* ------------------------------------------------------------------ helpers

\* JavaScript's a || b on strings: the empty (or absent) string is falsy.
OrElse(a, b) ==
  IF a # "" THEN a ELSE b

Max2(a, b) ==
  IF a >= b THEN a ELSE b

Max3(a, b, c) ==
  Max2(a, Max2(b, c))

Abs(v) ==
  IF v < 0 THEN -v ELSE v

\* An Error object: its class, the fixed part of its message and the parts
\* the message interpolates.
Err(name, message, detail) ==
  [name |-> name, message |-> message, detail |-> detail]

NoError == Err("", "", <<>>)

\* What fetch() rejects with when the transport fails.
TransportError == Err("TypeError", "fetch failed", <<>>)

\* What response.json() rejects with when the body is not JSON.
JsonSyntaxError == Err("SyntaxError", "Unexpected token in JSON", <<>>)

\* What reading a property of null throws.
NullDerefError == Err("TypeError", "Cannot read properties of null", <<>>)

NoPoint == <<>>

\* The outcome of a call that returns a value or throws.
Returned(v) ==
  [ok |-> TRUE, value |-> v, error |-> NoError]

Threw(e) ==
  [ok |-> FALSE, value |-> NoPoint, error |-> e]

\* --------------------------------------------- generateFovBoundaryVectors

\* A direction before tan() and normalize(): the angles (x, y) of the ray in
\* units of halfHoriz/den and halfVert/den, so that x = -den is the left
\* edge and x = den the right edge.  tan and normalize are injective on the
\* field of view, so two rays are equal iff these records are.
Dir(x, y, den) ==
  [x |-> x, y |-> y, den |-> den]

\* generateFovBoundaryVectors with i <= samplesPerEdge in the loop of the
\* left edge, which closes the rectangle on the corner it began with.
generateFovBoundaryVectorsClosing(samplesPerEdge) ==
  LET s == samplesPerEdge
      bottom == [k \in 1..(s + 1) |-> Dir(-s + 2 * (k - 1), -s, s)]
      right == [k \in 1..s |-> Dir(s, -s + 2 * k, s)]
      top == [k \in 1..s |-> Dir(s - 2 * k, s, s)]
      left == [k \in 1..s |-> Dir(-s, s - 2 * k, s)]
  IN bottom \o right \o top \o left

\* generateFovBoundaryVectors that steps by a fixed angle, 2 h from one
\* sample to the next, so that the rectangle grows with samplesPerEdge.
generateFovBoundaryVectorsFixedStep(samplesPerEdge) ==
  LET s == samplesPerEdge
      bottom == [k \in 1..(s + 1) |-> Dir(-s + 2 * (k - 1), -s, 1)]
      right == [k \in 1..s |-> Dir(s, -s + 2 * k, 1)]
      top == [k \in 1..s |-> Dir(s - 2 * k, s, 1)]
      left == [k \in 1..(s - 1) |-> Dir(-s, s - 2 * k, 1)]
  IN bottom \o right \o top \o left

\* generateFovBoundaryVectors with the top edge walked left to right.
generateFovBoundaryVectorsTopReversed(samplesPerEdge) ==
  LET s == samplesPerEdge
      bottom == [k \in 1..(s + 1) |-> Dir(-s + 2 * (k - 1), -s, s)]
      right == [k \in 1..s |-> Dir(s, -s + 2 * k, s)]
      top == [k \in 1..s |-> Dir(-s + 2 * (k - 1), s, s)]
      left == [k \in 1..(s - 1) |-> Dir(-s, s - 2 * k, s)]
  IN bottom \o right \o top \o left

generateFovBoundaryVectors(samplesPerEdge) ==
  LET s == samplesPerEdge
      \* for (i = 0; i <= s; i++)  x = -h + 2 h i/s, y = -v
      bottom == [k \in 1..(s + 1) |-> Dir(-s + 2 * (k - 1), -s, s)]
      \* for (i = 1; i <= s; i++)  x = h, y = -v + 2 v i/s
      right == [k \in 1..s |-> Dir(s, -s + 2 * k, s)]
      \* for (i = 1; i <= s; i++)  x = h - 2 h i/s, y = v
      top == [k \in 1..s |-> Dir(s - 2 * k, s, s)]
      \* for (i = 1; i < s; i++)   x = -h, y = v - 2 v i/s
      left == [k \in 1..(s - 1) |-> Dir(-s, s - 2 * k, s)]
  IN bottom \o right \o top \o left

\* ------------------------------------------------------ parseInterceptPoint

\* A cell of a result row: a JSON number, a text that is a number ("1.5"),
\* a text that starts with a number ("1.5km"), any other text, or null.
Cell(kind, n) ==
  [kind |-> kind, n |-> n]

\* A JavaScript number: NaN or a value.
Num(n) ==
  [nan |-> FALSE, n |-> n]

NaN == [nan |-> TRUE, n |-> 0]

\* typeof c === 'number' ? c : parseFloat(c)
toNumber(c) ==
  CASE c.kind = "number" -> Num(c.n)
    [] c.kind = "numtext" -> Num(c.n)
    [] c.kind = "prefixtext" -> Num(c.n)
    [] OTHER -> NaN

\* An outputID in capitals.
toUpperCase(id) ==
  CASE id = "x" -> "X"
    [] id = "y" -> "Y"
    [] id = "z" -> "Z"
    [] OTHER -> id

\* findIndex that compares the outputIDs without regard to case.
findIndexIgnoringCase(columns, id) ==
  IF \E k \in 1..Len(columns) : toUpperCase(columns[k]) = id
  THEN (CHOOSE k \in 1..Len(columns) :
          /\ toUpperCase(columns[k]) = id
          /\ \A j \in 1..(k - 1) : toUpperCase(columns[j]) # id) - 1
  ELSE -1

\* columns.findIndex(col => col.outputID === id), 0-based, -1 when absent
findIndex(columns, id) ==
  IF \E k \in 1..Len(columns) : columns[k] = id
  THEN (CHOOSE k \in 1..Len(columns) :
          /\ columns[k] = id
          /\ \A j \in 1..(k - 1) : columns[j] # id) - 1
  ELSE -1

\* A result payload: columns (the outputIDs, when columns is an array), rows
\* (when rows is an array; a row is its cells, or not an array), error (""
\* when the payload carries no error field).
Payload(hasColumns, columns, hasRows, rows, error) ==
  [hasColumns |-> hasColumns, columns |-> columns,
   hasRows |-> hasRows, rows |-> rows, error |-> error]

Row(isArray, cells) ==
  [isArray |-> isArray, cells |-> cells]

\* parseInterceptPoint that reads the last row.
parseInterceptPointLastRow(resultData) ==
  IF resultData.hasColumns /\ resultData.hasRows
  THEN LET xIndex == findIndex(resultData.columns, "X")
           yIndex == findIndex(resultData.columns, "Y")
           zIndex == findIndex(resultData.columns, "Z")
       IN IF xIndex = -1 \/ yIndex = -1 \/ zIndex = -1
          THEN Threw(Err("Error", "Could not find X, Y, Z columns in result data",
                         resultData.columns))
          ELSE IF Len(resultData.rows) = 0
          THEN Threw(Err("Error", "No rows in WGC2 result data", <<>>))
          ELSE LET row == resultData.rows[Len(resultData.rows)]
               IN IF ~row.isArray \/ Len(row.cells) <= Max3(xIndex, yIndex, zIndex)
                  THEN Threw(Err("Error", "Invalid row format in WGC2 result data", <<>>))
                  ELSE LET x == toNumber(row.cells[xIndex + 1])
                           y == toNumber(row.cells[yIndex + 1])
                           z == toNumber(row.cells[zIndex + 1])
                       IN IF x.nan \/ y.nan \/ z.nan
                          THEN Threw(Err("Error", "Invalid numeric values in result row", <<>>))
                          ELSE Returned(<<x.n, y.n, z.n>>)
  ELSE Threw(Err("Error", "Unsupported WGC2 result format", <<>>))

\* parseInterceptPoint that takes the rows of a payload without columns for
\* rows of x, y and z.
parseInterceptPointGuessing(resultData) ==
  IF resultData.hasColumns /\ resultData.hasRows
  THEN parseInterceptPointLastRow([resultData EXCEPT !.rows = SubSeq(@, 1, 1)])
  ELSE IF resultData.hasRows /\ resultData.rows # <<>> /\ resultData.rows[1].isArray
          /\ Len(resultData.rows[1].cells) >= 3
       THEN Returned(<<resultData.rows[1].cells[1].n, resultData.rows[1].cells[2].n,
                       resultData.rows[1].cells[3].n>>)
       ELSE Threw(Err("Error", "Unsupported WGC2 result format", <<>>))

parseInterceptPoint(resultData) ==
  IF resultData.hasColumns /\ resultData.hasRows
  THEN LET xIndex == findIndex(resultData.columns, "X")
           yIndex == findIndex(resultData.columns, "Y")
           zIndex == findIndex(resultData.columns, "Z")
       IN IF xIndex = -1 \/ yIndex = -1 \/ zIndex = -1
          THEN Threw(Err("Error", "Could not find X, Y, Z columns in result data",
                         resultData.columns))
          ELSE IF Len(resultData.rows) = 0
          THEN Threw(Err("Error", "No rows in WGC2 result data", <<>>))
          ELSE LET row == resultData.rows[1]
               IN IF ~row.isArray \/ Len(row.cells) <= Max3(xIndex, yIndex, zIndex)
                  THEN Threw(Err("Error", "Invalid row format in WGC2 result data", <<>>))
                  ELSE LET x == toNumber(row.cells[xIndex + 1])
                           y == toNumber(row.cells[yIndex + 1])
                           z == toNumber(row.cells[zIndex + 1])
                       IN IF x.nan \/ y.nan \/ z.nan
                          THEN Threw(Err("Error", "Invalid numeric values in result row", <<>>))
                          ELSE Returned(<<x.n, y.n, z.n>>)
  ELSE Threw(Err("Error", "Unsupported WGC2 result format", <<>>))

\* ------------------------------------------------------------ the service

\* Phases a response may carry; "" is a response without result.phase.
ServicePhases == {"", "COMPUTING", "COMPLETE", "FAILED"}

TerminalPhases == {"COMPLETE", "FAILED"}

\* How a fetch() and the following json() can end: the transport fails, the
\* HTTP status is not a success, the body is not JSON, the body is the JSON
\* value null, the body is a falsy JSON primitive (0, false, ""), or the
\* body is a JSON object.
HttpFailures == {"reject", "nonok", "badjson", "jsonnull"}

\* A calculationId of a submission response: a non-empty string (the handle
\* v), the empty string, no field at all, or a number.
CalcId(kind, v) ==
  [kind |-> kind, v |-> v]

NoJob == <<>>

\* The handle the service issues for ray i of invocation p: every submission
\* gets a handle of its own.
Handle(p, i) ==
  <<p, i>>

\* A WGC2CalculationResponse (wgc2Footprint.ts:49-58) with its transport.
CalcResponse(http, status, error, message, id, ph) ==
  [http |-> http, status |-> status, error |-> error, message |-> message,
   calculationId |-> id, phase |-> ph]

SubmitResponses(p, i) ==
  {CalcResponse(h, "", "", "", CalcId("missing", NoJob), "") : h \in HttpFailures}
  \cup {CalcResponse("json", st, e, m, CalcId(k, IF k = "string" THEN Handle(p, i) ELSE NoJob), ph) :
          st \in {"OK", "ERROR"}, e \in {"", "E_SUBMIT"}, m \in {"", "M_SUBMIT"},
          k \in {"string", "empty", "missing", "number"}, ph \in ServicePhases}

StatusResponses ==
  {CalcResponse(h, "", "", "", CalcId("missing", NoJob), "") : h \in HttpFailures}
  \cup {CalcResponse("json", st, e, m, CalcId("missing", NoJob), ph) :
          st \in {"OK", "ERROR"}, e \in {"", "E_STATUS"}, m \in {"", "M_STATUS"},
          ph \in ServicePhases}

\* The bodies the rays may meet: the distance (km) of the surface along the
\* boresight.  The service computes the intercept from the kernels and the
\* instant of the request, so one footprint sees one surface.
Surfaces == {7, 134219}

\* The intercept (km) the service reports for direction v on surface z: it
\* depends on the ray, so the points of two rays of one footprint differ.
KmPoint(v, z) ==
  <<v.x, v.y, z>>

NumRow(pt) ==
  Row(TRUE, <<Cell("number", pt[1]), Cell("number", pt[2]), Cell("number", pt[3])>>)

TabularPayload(pt) ==
  Payload(TRUE, <<"X", "Y", "Z">>, TRUE, <<NumRow(pt)>>, "")

\* The payloads the service may hold for direction v: the tabular result, a
\* result with an embedded error, and malformed results.
PayloadsFor(v, z) ==
  {TabularPayload(KmPoint(v, z)),
   Payload(TRUE, <<"X", "Y", "Z">>, TRUE, <<NumRow(KmPoint(v, z))>>, "E_RESULT"),
        Payload(TRUE, <<"X", "Y">>, TRUE, <<NumRow(KmPoint(v, z))>>, ""),
        Payload(TRUE, <<"X", "Y", "Z">>, TRUE, <<>>, ""),
        Payload(TRUE, <<"X", "Y", "Z">>, TRUE,
                <<Row(TRUE, <<Cell("number", 1), Cell("text", 0), Cell("number", 3)>>)>>, ""),
        Payload(FALSE, <<>>, FALSE, <<>>, "")}

NoPayload == Payload(FALSE, <<>>, FALSE, <<>>, "")

\* The body of a results response: its result field (<<>> when absent or
\* falsy, else <<payload>>) and the body's own fields read as a payload.
ResultsResponse(http, result, body) ==
  [http |-> http, result |-> result, body |-> body]

ResultsResponses(v, z) ==
  {ResultsResponse(h, <<>>, NoPayload) : h \in HttpFailures \cup {"jsonfalsy"}}
  \cup {ResultsResponse("json", <<pl>>, own) :
          pl \in PayloadsFor(v, z),
          own \in {NoPayload, Payload(FALSE, <<>>, FALSE, <<>>, "E_BODY")}}
  \cup {ResultsResponse("json", <<>>, pl) : pl \in PayloadsFor(v, z)}

\* The body of the results response of a FAILED calculation: its error and
\* message fields ("" when absent).
DetailResponse(http, error, message) ==
  [http |-> http, error |-> error, message |-> message]

NoDetail == DetailResponse("none", "", "")

DetailResponses ==
  {DetailResponse(h, "", "") : h \in HttpFailures}
  \cup {DetailResponse("json", e, m) : e \in {"", "E_CALC"}, m \in {"", "M_CALC"}}

\* --------------------------------------------------------------- the query

DEFAULT_KERNEL_SET_ID == 35

DEFAULT_SAMPLES_PER_EDGE == 2

\* DEFAULT_FOV, in tenths of a degree
DEFAULT_FOV ==
  [halfHorizDeg |-> 6, halfVertDeg |-> 6]

\* What searchParams.get returns: kind "absent" for null and for the empty
\* text, both falsy; "numtext" a text that is the number n, "prefixtext" a
\* text that begins with the number n ("35abc"), "infinity" the text
\* Infinity, "text" any other text (n its name among the texts).
Param(kind, n) ==
  [kind |-> kind, n |-> n]

Absent == Param("absent", 0)

\* The number Infinity.
Infinity == [nan |-> FALSE, n |-> 0, inf |-> TRUE]

\* parseInt(c, 10) of a text
parseInt(c) ==
  CASE c.kind = "numtext" -> Num(c.n)
    [] c.kind = "prefixtext" -> Num(c.n)
    [] OTHER -> NaN

\* parseFloat(c) of a text
parseFloat(c) ==
  CASE c.kind = "numtext" -> Num(c.n)
    [] c.kind = "prefixtext" -> Num(c.n)
    [] c.kind = "infinity" -> Infinity
    [] OTHER -> NaN

\* v <= 0 on numbers
notPositive(v) ==
  v # Infinity /\ ~v.nan /\ v.n <= 0

Query(utc, kernelSetId, shape, sr, hh, hv, spe, observer) ==
  [utc |-> utc, kernelSetId |-> kernelSetId, shape |-> shape, sr |-> sr,
   hh |-> hh, hv |-> hv, spe |-> spe, observer |-> observer]

\* route.ts 466-508: the parameters read from the query.
paramsOf(q) ==
  [utc |-> q.utc.n,
   kernelSetId |-> IF q.kernelSetId.kind = "absent" THEN Num(DEFAULT_KERNEL_SET_ID)
                   ELSE parseInt(q.kernelSetId),
   shape |-> IF q.shape = Param("text", "ELLIPSOID") THEN "ELLIPSOID" ELSE "DSK",
   stateRepresentation |->
     IF q.sr = Param("text", "PLANETOGRAPHIC") THEN "PLANETOGRAPHIC"
     ELSE IF q.sr = Param("text", "LATITUDINAL") THEN "LATITUDINAL"
     ELSE "RECTANGULAR",
   halfHorizDeg |-> IF q.hh.kind = "absent" THEN Num(DEFAULT_FOV.halfHorizDeg)
                    ELSE parseFloat(q.hh),
   halfVertDeg |-> IF q.hv.kind = "absent" THEN Num(DEFAULT_FOV.halfVertDeg)
                   ELSE parseFloat(q.hv),
   samplesPerEdge |-> IF q.spe.kind = "absent" THEN Num(DEFAULT_SAMPLES_PER_EDGE)
                      ELSE parseInt(q.spe),
   observer |-> IF q.observer.kind = "absent" THEN "OSIRIS-REx" ELSE q.observer.n]

\* route.ts 459-504: the error the query is refused with, "" for none.
validate(q) ==
  LET ps == paramsOf(q)
  IN IF q.utc.kind = "absent" THEN "Missing required parameter: utc"
     ELSE IF ps.kernelSetId.nan THEN "Invalid kernelSetId parameter"
     ELSE IF \/ ps.halfHorizDeg.nan \/ ps.halfVertDeg.nan
             \/ notPositive(ps.halfHorizDeg) \/ notPositive(ps.halfVertDeg)
     THEN "Invalid FOV half-angles (hh, hv). Must be positive numbers."
     ELSE IF ps.samplesPerEdge.nan \/ ps.samplesPerEdge.n < 1
     THEN "Invalid samplesPerEdge (spe). Must be a positive integer."
     ELSE ""

\* A query the route accepts, for s samples per edge.
acceptedQuery(s) ==
  Query(Param("text", "T0"), Absent, Absent, Absent, Absent, Absent,
        Param("numtext", s), Absent)

\* calculationRequest that names the boresight axis of the instrument frame
\* for the rays of the vertical centre line.
calculationRequestAlongAxis(ps, d) ==
  [calculationType |-> "SURFACE_INTERCEPT_POINT",
   kernels |-> <<[type |-> "KERNEL_SET", id |-> ps.kernelSetId.n]>>,
   times |-> <<ps.utc>>,
   timeSystem |-> "UTC",
   timeFormat |-> "CALENDAR",
   observer |-> ps.observer,
   target |-> "BENNU",
   referenceFrame |-> "IAU_BENNU",
   aberrationCorrection |-> "NONE",
   shape1 |-> ps.shape,
   targetFrame |-> "IAU_BENNU",
   directionVectorType |-> IF d.x = 0 THEN "FRAME_AXIS" ELSE "VECTOR",
   directionFrame |-> "ORX_OCAMS_POLYCAM",
   directionVectorX |-> d.x,
   directionVectorY |-> d.y,
   directionVectorZ |-> d.den,
   vectorAbCorr |-> "NONE",
   stateRepresentation |-> ps.stateRepresentation]

\* fetchInterceptPointForRay 379-398: the body POSTed for the direction d,
\* whose vector is (d.x, d.y, d.den) before tan() and normalize().
calculationRequest(ps, d) ==
  [calculationType |-> "SURFACE_INTERCEPT_POINT",
   kernels |-> <<[type |-> "KERNEL_SET", id |-> ps.kernelSetId.n]>>,
   times |-> <<ps.utc>>,
   timeSystem |-> "UTC",
   timeFormat |-> "CALENDAR",
   observer |-> ps.observer,
   target |-> "BENNU",
   referenceFrame |-> "IAU_BENNU",
   aberrationCorrection |-> "NONE",
   shape1 |-> ps.shape,
   targetFrame |-> "IAU_BENNU",
   directionVectorType |-> "VECTOR",
   directionFrame |-> "ORX_OCAMS_POLYCAM",
   directionVectorX |-> d.x,
   directionVectorY |-> d.y,
   directionVectorZ |-> d.den,
   vectorAbCorr |-> "NONE",
   stateRepresentation |-> ps.stateRepresentation]

\* No body was POSTed.
NoBody == <<>>

\* ------------------------------------------------------------------- state

VARIABLES
  surface,          \* the environment: the surface each invocation's rays meet
  pc,               \* where each invocation stands
  samplesPerEdge,   \* params.samplesPerEdge
  boundaryVectors,  \* fetchFootprintPolygon:486
  rayIndex,         \* position of the for-of loop (492), 1-based
  intercepts,       \* fetchFootprintPolygon:489
  errors,           \* fetchFootprintPolygon:490, by its length (all 515 reads)
  jobId,            \* fetchInterceptPointForRay:420
  pollAttempts,     \* pollForCompletion:101
  phase,            \* pollForCompletion:102
  thrown,           \* the error a ray rejected with, until the catch (505)
  returned,         \* the intercept a ray resolved with, until the push (504)
  boundaryMeters,   \* what the invocation resolved with (520-527)
  rejection,        \* what the invocation rejected with (513-516)
  submitted,        \* history: POSTs issued per ray
  reqs,             \* history: status requests and sleeps of the current job
  seen,             \* history: phases the ray's job was observed in
  detail,           \* history: the results response of the ray's FAILED job
  outcome,          \* history: the point parsed for each ray, if any
  trianglesMeters,  \* the mesh the route handler makes of the boundary
  response,         \* what the route handler answered, if it did
  inVertices,       \* a vertex list given to the geometry routines
  outPerimeter,     \* what calculateBoundaryMeters made of the vertices
  outFan,           \* what triangulateFanXYZ made of the vertices
  inResultData,     \* a result payload given to parseInterceptPoint
  outPoint,         \* what parseInterceptPoint made of the payload
  query,            \* the query parameters of the request to the route
  posted,           \* history: the body POSTed for each ray
  outIndices,       \* what createFanTriangulation made of the vertices
  calc,             \* the request to the single-calculation route
  page              \* the viewer page: its React state and its fetches

vars ==
  <<surface, pc, samplesPerEdge, boundaryVectors, rayIndex, intercepts, errors, jobId,
    pollAttempts, phase, thrown, returned, boundaryMeters, rejection,
    submitted, reqs, seen, detail, outcome, trianglesMeters, response,
    inVertices, outPerimeter, outFan, inResultData, outPoint, query, posted,
    outIndices, calc, page>>

\* The input and the result of the routines called on their own.
callVars ==
  <<inVertices, outPerimeter, outFan, inResultData, outPoint>>

\* What no step of an invocation of fetchFootprintPolygon touches.
apartVars ==
  <<query, callVars, outIndices, calc, page>>

\* A routine that was not called.
NotCalled == [ok |-> FALSE, value |-> <<>>, error |-> NoError]

\* The route handler did not answer.
NoResponse == [status |-> 0]

\* status: the status requests issued for the job; waits: its sleeps;
\* slept: the milliseconds they lasted.
NoReqs == [status |-> 0, waits |-> 0, slept |-> 0]

\* No results response yet.
NoResults == ResultsResponse("none", <<>>, NoPayload)

\* initial: the phase of the submission response (NONE before it, NONTERMINAL
\* for any phase but COMPLETE and FAILED); terminal: a status response
\* reported COMPLETE or FAILED; exhausted: MAX_POLL_ATTEMPTS status requests
\* were issued and the last of them was answered with a phase; badSubmit,
\* badStatus: the submission, a status request failed; results: the results
\* response of the COMPLETE job; parsed: its payload went to
\* parseInterceptPoint.
NoSeen ==
  [initial |-> "NONE", terminal |-> FALSE, exhausted |-> FALSE,
   badSubmit |-> FALSE, badStatus |-> FALSE, results |-> NoResults,
   parsed |-> FALSE]

NoRejection == [message |-> "", size |-> 0, failed |-> 0, total |-> 0]

InitProc(p, active) ==
  /\ pc[p] = IF active THEN "call" ELSE "unused"
  /\ active => samplesPerEdge[p] \in 1..MaxSamplesPerEdge
  /\ active => surface[p] \in Surfaces
  /\ ~active => samplesPerEdge[p] = 1
  /\ ~active => surface[p] = 0

\* The locals and the history of invocations that did not begin.
Fresh ==
  /\ boundaryVectors = [p \in Procs |-> <<>>]
  /\ rayIndex = [p \in Procs |-> 1]
  /\ intercepts = [p \in Procs |-> <<>>]
  /\ errors = [p \in Procs |-> 0]
  /\ jobId = [p \in Procs |-> NoJob]
  /\ pollAttempts = [p \in Procs |-> 0]
  /\ phase = [p \in Procs |-> "PENDING"]
  /\ thrown = [p \in Procs |-> NoError]
  /\ returned = [p \in Procs |-> NoPoint]
  /\ boundaryMeters = [p \in Procs |-> <<>>]
  /\ rejection = [p \in Procs |-> NoRejection]
  /\ submitted = [p \in Procs |-> <<>>]
  /\ reqs = [p \in Procs |-> NoReqs]
  /\ seen = [p \in Procs |-> NoSeen]
  /\ detail = [p \in Procs |-> NoDetail]
  /\ outcome = [p \in Procs |-> <<>>]
  /\ trianglesMeters = [p \in Procs |-> <<>>]
  /\ response = [p \in Procs |-> NoResponse]
  /\ posted = [p \in Procs |-> <<>>]

\* The route accepted the query of every invocation.
Accepted ==
  query = [p \in Procs |-> acceptedQuery(samplesPerEdge[p])]

\* The request to the single-calculation route before it is made: the
\* handler's locals (jobId, phase, pollAttempts, resultData), the status it
\* answered with (0 for none), and the history of the request: the status
\* requests issued, those of them that showed a phase that is not terminal,
\* where FAILED was seen, the status requests issued after that, and how
\* the fetch of the failed calculation's results ended.
NoCalc ==
  [pc |-> "idle", jobId |-> 0, phase |-> "PENDING", pollAttempts |-> 0,
   resultData |-> [given |-> FALSE, error |-> "", vertices |-> 0],
   status |-> 0, requests |-> 0, observed |-> 0, failedIn |-> "",
   late |-> 0, detailHttp |-> ""]

\* The viewer page before it is mounted.
NoPage ==
  [mounted |-> FALSE]

\* No request to the single-calculation route and no viewer page.
Elsewhere ==
  /\ calc = NoCalc
  /\ page = NoPage

\* No routine is called on its own.
NoCalls ==
  /\ inVertices = <<>>
  /\ outPerimeter = NotCalled
  /\ outFan = NotCalled
  /\ inResultData = NoPayload
  /\ outPoint = NotCalled
  /\ outIndices = NotCalled

\* One invocation.
Init ==
  /\ surface \in [Procs -> Surfaces \cup {0}]
  /\ pc \in [Procs -> {"call", "unused"}]
  /\ samplesPerEdge \in [Procs -> 1..MaxSamplesPerEdge]
  /\ \A p \in Procs : InitProc(p, p = 1)
  /\ Fresh
  /\ NoCalls
  /\ Elsewhere
  /\ Accepted

\* -------------------------------------------------- the client's decisions

\* validateJobId that lets the empty string pass.
validateJobIdAcceptsEmpty(id) ==
  IF id.kind \in {"string", "empty"}
  THEN Returned(id.v)
  ELSE Threw(Err("Error", "Invalid job ID returned from WGC2 API",
                 <<CASE id.kind = "number" -> "number"
                     [] OTHER -> "undefined">>))

\* validateJobId (88-95): a non-empty string passes.
validateJobId(id) ==
  IF id.kind = "string"
  THEN Returned(id.v)
  ELSE Threw(Err("Error", "Invalid job ID returned from WGC2 API",
                 <<CASE id.kind = "empty" -> "string"
                     [] id.kind = "number" -> "number"
                     [] OTHER -> "undefined">>))

\* A submission that failed (fetchInterceptPointForRay 401-420): transport,
\* HTTP status, body, service status or error field, calculationId.
failedSubmission(r) ==
  \/ r.http # "json"
  \/ r.status # "OK"
  \/ r.error # ""
  \/ r.calculationId.kind # "string"

\* A status request that failed (pollForCompletion 109-124).
failedStatus(r) ==
  \/ r.http # "json"
  \/ r.status # "OK"
  \/ r.error # ""

\* fetchInterceptPointForRay 407-421: what the submission response yields,
\* the initial phase or the error thrown.
initiate(r) ==
  IF r.http = "reject" THEN Threw(TransportError)
  ELSE IF r.http = "nonok"
  THEN Threw(Err("Error", "Failed to initiate WGC2 calculation", <<>>))
  ELSE IF r.http = "badjson" THEN Threw(JsonSyntaxError)
  ELSE IF r.http = "jsonnull" THEN Threw(NullDerefError)
  ELSE IF r.status # "OK" \/ r.error # ""
  THEN Threw(Err("Error", "WGC2 calculation request failed",
                 <<OrElse(r.error, OrElse(r.message, "Unknown error"))>>))
  ELSE IF ~validateJobId(r.calculationId).ok
  THEN Threw(validateJobId(r.calculationId).error)
  ELSE Returned(OrElse(r.phase, "PENDING"))

\* fetchInterceptPointForRay 425: the submission response that skips polling.
fetchesImmediately(initialPhase) ==
  initialPhase = "COMPLETE"

\* checkStatus without the test of the service status and the error field.
checkStatusLenient(r) ==
  IF r.http = "reject" THEN Threw(TransportError)
  ELSE IF r.http = "nonok"
  THEN Threw(Err("Error", "Failed to fetch calculation status", <<>>))
  ELSE IF r.http = "badjson" THEN Threw(JsonSyntaxError)
  ELSE IF r.http = "jsonnull" THEN Threw(NullDerefError)
  ELSE Returned(OrElse(r.phase, "PENDING"))

\* pollForCompletion 115-126: what a status response yields, the phase or
\* the error thrown.
checkStatus(r) ==
  IF r.http = "reject" THEN Threw(TransportError)
  ELSE IF r.http = "nonok"
  THEN Threw(Err("Error", "Failed to fetch calculation status", <<>>))
  ELSE IF r.http = "badjson" THEN Threw(JsonSyntaxError)
  ELSE IF r.http = "jsonnull" THEN Threw(NullDerefError)
  ELSE IF r.status # "OK" \/ r.error # ""
  THEN Threw(Err("Error", "WGC2 status check failed",
                 <<OrElse(r.error, OrElse(r.message, "Unknown error"))>>))
  ELSE Returned(OrElse(r.phase, "PENDING"))

\* continuePolling without the ceiling.
continuePollingUnbounded(ph, attempts) ==
  ph # "COMPLETE"

\* pollForCompletion 104: the loop condition.
continuePolling(ph, attempts) ==
  ph # "COMPLETE" /\ attempts < MAX_POLL_ATTEMPTS

\* pollForCompletion 169-175: what the function throws after its loop.
afterLoop(ph) ==
  IF ph # "COMPLETE"
  THEN Err("Error", "Calculation did not complete within MAX_POLL_ATTEMPTS attempts",
           <<ph>>)
  ELSE Err("Error", "Unexpected polling completion state", <<>>)

\* readResults without the test of the payload's error field.
readResultsIgnoringError(r) ==
  IF r.http = "reject" THEN Threw(TransportError)
  ELSE IF r.http = "nonok"
  THEN Threw(Err("Error", "Failed to fetch calculation results", <<>>))
  ELSE IF r.http = "badjson" THEN Threw(JsonSyntaxError)
  ELSE IF r.http = "jsonnull" THEN Threw(NullDerefError)
  ELSE IF r.http = "jsonfalsy"
  THEN Threw(Err("Error", "WGC2 returned null result data", <<>>))
  ELSE Returned(IF r.result # <<>> THEN r.result[1] ELSE r.body)

\* pollForCompletion 135-151 and fetchInterceptPointForRay 433-447: what a
\* results response yields, the result data or the error thrown.
readResults(r) ==
  IF r.http = "reject" THEN Threw(TransportError)
  ELSE IF r.http = "nonok"
  THEN Threw(Err("Error", "Failed to fetch calculation results", <<>>))
  ELSE IF r.http = "badjson" THEN Threw(JsonSyntaxError)
  ELSE IF r.http = "jsonnull" THEN Threw(NullDerefError)
  ELSE IF r.http = "jsonfalsy"
  THEN Threw(Err("Error", "WGC2 returned null result data", <<>>))
  ELSE LET resultData == IF r.result # <<>> THEN r.result[1] ELSE r.body
       IN IF resultData.error # ""
          THEN Threw(Err("Error", "WGC2 calculation returned an error",
                         <<resultData.error>>))
          ELSE Returned(resultData)

\* failedDetail with the upstream text dropped from the message.
failedDetailWithoutText(r) ==
  IF r.http = "reject" THEN TransportError
  ELSE IF r.http = "nonok" THEN NoError
  ELSE IF r.http = "badjson" THEN JsonSyntaxError
  ELSE IF r.http = "jsonnull" THEN NullDerefError
  ELSE Err("Error", "WGC2 calculation failed", <<"Unknown error">>)

\* pollForCompletion 159-163: what the results response of a FAILED job
\* makes the function throw; NoError when it throws nothing.
failedDetail(r) ==
  IF r.http = "reject" THEN TransportError
  ELSE IF r.http = "nonok" THEN NoError
  ELSE IF r.http = "badjson" THEN JsonSyntaxError
  ELSE IF r.http = "jsonnull" THEN NullDerefError
  ELSE Err("Error", "WGC2 calculation failed",
           <<OrElse(r.error, OrElse(r.message, "Unknown error"))>>)

\* pushIntercept with unshift for push.
pushInterceptInFront(list, intercept) ==
  <<intercept>> \o list

\* fetchFootprintPolygon 504: intercepts.push(intercept)
pushIntercept(list, intercept) ==
  Append(list, intercept)

\* insufficient with <= for <.
insufficientOffByOne(list) ==
  Len(list) <= MIN_INTERCEPTS

\* fetchFootprintPolygon 512
insufficient(list) ==
  Len(list) < MIN_INTERCEPTS

\* Math.fround on an integer: the nearest number with a 24-bit significand,
\* ties to even (what a store into a Float32Array keeps).
RECURSIVE ulpOf(_, _)
ulpOf(mag, ulp) ==
  IF mag < 16777216 * ulp THEN ulp ELSE ulpOf(mag, 2 * ulp)

fround(v) ==
  LET mag == Abs(v)
      ulp == ulpOf(mag, 1)
      q == mag \div ulp
      r == mag % ulp
      up == 2 * r > ulp \/ (2 * r = ulp /\ q % 2 = 1)
      rounded == (IF up THEN q + 1 ELSE q) * ulp
  IN IF v < 0 THEN -rounded ELSE rounded

\* fetchFootprintPolygon 520-525: the Float32Array of the intercepts in metres.
RECURSIVE toBoundaryMeters(_)
toBoundaryMeters(list) ==
  IF list = <<>> THEN <<>>
  ELSE <<fround(Head(list)[1] * KM_TO_M), fround(Head(list)[2] * KM_TO_M),
         fround(Head(list)[3] * KM_TO_M)>> \o toBoundaryMeters(Tail(list))

\* triangulateFanXYZ that scales its input again, metres to kilometres.
triangulateFanXYZScaling(boundary) ==
  LET vertexCount == Len(boundary) \div 3
      triangleCount == vertexCount - 2
      vertex(k) == <<fround(boundary[3 * k + 1] \div KM_TO_M),
                     fround(boundary[3 * k + 2] \div KM_TO_M),
                     fround(boundary[3 * k + 3] \div KM_TO_M)>>
      triangle(i) == vertex(0) \o vertex(i + 1) \o vertex(i + 2)
      fan[i \in 0..triangleCount] ==
        IF i = triangleCount THEN <<>> ELSE triangle(i) \o fan[i + 1]
  IN IF vertexCount < 3
     THEN Threw(Err("Error", "Insufficient vertices for triangulation", <<vertexCount>>))
     ELSE Returned(fan[0])

\* triangulateFanXYZ that walks the boundary as a strip: triangle i is made
\* of the vertices i, i + 1 and i + 2.
triangulateFanXYZStrip(boundary) ==
  LET vertexCount == Len(boundary) \div 3
      triangleCount == vertexCount - 2
      vertex(k) == <<fround(boundary[3 * k + 1]), fround(boundary[3 * k + 2]),
                     fround(boundary[3 * k + 3])>>
      triangle(i) == vertex(i) \o vertex(i + 1) \o vertex(i + 2)
      fan[i \in 0..triangleCount] ==
        IF i = triangleCount THEN <<>> ELSE triangle(i) \o fan[i + 1]
  IN IF vertexCount < 3
     THEN Threw(Err("Error", "Insufficient vertices for triangulation", <<vertexCount>>))
     ELSE Returned(fan[0])

\* triangulateFanXYZ whose error names the number of coordinates.
triangulateFanXYZNamingLength(boundary) ==
  LET vertexCount == Len(boundary) \div 3
      triangleCount == vertexCount - 2
      vertex(k) == <<fround(boundary[3 * k + 1]), fround(boundary[3 * k + 2]),
                     fround(boundary[3 * k + 3])>>
      triangle(i) == vertex(0) \o vertex(i + 1) \o vertex(i + 2)
      fan[i \in 0..triangleCount] ==
        IF i = triangleCount THEN <<>> ELSE triangle(i) \o fan[i + 1]
  IN IF vertexCount < 3
     THEN Threw(Err("Error", "Insufficient vertices for triangulation", <<Len(boundary)>>))
     ELSE Returned(fan[0])

\* triangulateFanXYZ 541-589: the fan of a boundary, (n - 2) triangles of the
\* anchor vertex 0 with the vertices i + 1 and i + 2, every coordinate stored
\* into a Float32Array.
triangulateFanXYZ(boundary) ==
  LET vertexCount == Len(boundary) \div 3
      triangleCount == vertexCount - 2
      vertex(k) == <<fround(boundary[3 * k + 1]), fround(boundary[3 * k + 2]),
                     fround(boundary[3 * k + 3])>>
      triangle(i) == vertex(0) \o vertex(i + 1) \o vertex(i + 2)
      fan[i \in 0..triangleCount] ==
        IF i = triangleCount THEN <<>> ELSE triangle(i) \o fan[i + 1]
  IN IF vertexCount < 3
     THEN Threw(Err("Error", "Insufficient vertices for triangulation", <<vertexCount>>))
     ELSE Returned(fan[0])

\* insufficientError with the failures counted against the rays attempted
\* with a result of either kind, the failures themselves.
insufficientErrorWrongTotal(list, nErrors, nVectors) ==
  [message |-> "Insufficient intercepts to form a polygon",
   size |-> Len(list), failed |-> nErrors, total |-> nErrors]

\* fetchFootprintPolygon 513-516: the error of a footprint with too few points.
insufficientError(list, nErrors, nVectors) ==
  [message |-> "Insufficient intercepts to form a polygon",
   size |-> Len(list), failed |-> nErrors, total |-> nVectors]

\* loopHead that sleeps before the first status request as well.
loopHeadWaitingFirst(ph, attempts) ==
  IF continuePolling(ph, attempts)
  THEN [pc |-> "wait", thrown |-> NoError]
  ELSE [pc |-> "thrown", thrown |-> afterLoop(ph)]

\* pollForCompletion 104-113: the head of an iteration with the phase and the
\* attempts of the moment: sleep, issue the status request, or leave the
\* loop and throw.
loopHead(ph, attempts) ==
  IF continuePolling(ph, attempts)
  THEN [pc |-> IF attempts > 0 THEN "wait" ELSE "status", thrown |-> NoError]
  ELSE [pc |-> "thrown", thrown |-> afterLoop(ph)]

\* A GET of the service: its path and the job that keys it.
Request(path, job) ==
  [path |-> path, job |-> job]

NoRequest == Request("", NoJob)

\* statusUrl keyed by the handle of the invocation's first job.
statusUrlOfFirstJob(id) ==
  Request("calculation", <<id[1], 1>>)

\* pollForCompletion 108: `${WGC_API_BASE}/calculation/${jobId}`
statusUrl(id) ==
  Request("calculation", id)

\* pollForCompletion 129, 153; fetchInterceptPointForRay 427:
\* `${WGC_API_BASE}/calculation/${jobId}/results`
resultsUrl(id) ==
  Request("calculation/results", id)

\* ----------------------------------------------------------------- actions

\* The current ray of invocation p.
ray(p) ==
  boundaryVectors[p][rayIndex[p]]

\* The GET whose response invocation p awaits, if any.
awaited(p) ==
  CASE pc[p] = "status" -> statusUrl(jobId[p])
    [] pc[p] \in {"results_now", "results", "detail"} -> resultsUrl(jobId[p])
    [] OTHER -> NoRequest

\* What a step of a ray leaves alone.
footprintVars ==
  <<apartVars, posted, response, surface, samplesPerEdge, boundaryVectors, rayIndex, intercepts, errors,
    boundaryMeters, rejection, submitted, trianglesMeters>>

\* The ray of invocation p as it stands: the locals of
\* fetchInterceptPointForRay and pollForCompletion, and the job's history.
Now(p) ==
  [pc |-> pc[p], jobId |-> jobId[p], pollAttempts |-> pollAttempts[p],
   phase |-> phase[p], thrown |-> NoError, returned |-> NoPoint,
   status |-> reqs[p].status, waits |-> reqs[p].waits, slept |-> reqs[p].slept,
   seen |-> seen[p], detail |-> detail[p]]

\* The ray of invocation p becomes n.  A throw or a return ends
\* fetchInterceptPointForRay: its locals and the job's request counters go.
Becomes(p, n) ==
  LET over == n.pc \in {"thrown", "returned"}
  IN /\ pc' = [pc EXCEPT ![p] = n.pc]
     /\ jobId' = [jobId EXCEPT ![p] = IF over THEN NoJob ELSE n.jobId]
     /\ pollAttempts' = [pollAttempts EXCEPT ![p] = IF over THEN 0 ELSE n.pollAttempts]
     /\ phase' = [phase EXCEPT ![p] = IF over THEN "PENDING" ELSE n.phase]
     /\ thrown' = [thrown EXCEPT ![p] = n.thrown]
     /\ returned' = [returned EXCEPT ![p] = n.returned]
     /\ reqs' = [reqs EXCEPT ![p] = IF over THEN NoReqs
                                    ELSE [status |-> n.status, waits |-> n.waits,
                                          slept |-> n.slept]]
     /\ seen' = [seen EXCEPT ![p] = n.seen]
     /\ detail' = [detail EXCEPT ![p] = n.detail]
     /\ outcome' = [outcome EXCEPT ![p][rayIndex[p]] =
                      IF n.pc = "returned" THEN n.returned ELSE @]

throw(n, e) ==
  [n EXCEPT !.pc = "thrown", !.thrown = e]

\* pollForCompletion 104-113 from the ray n, whose phase and pollAttempts are
\* those of the moment: sleep, issue the status request, or throw.
enterIteration(n) ==
  LET h == loopHead(n.phase, n.pollAttempts)
  IN [n EXCEPT !.pc = h.pc, !.thrown = h.thrown,
               !.status = IF h.pc = "status" THEN @ + 1 ELSE @]

\* fetchFootprintPolygon 473-490
Begin(p) ==
  /\ pc[p] = "call"
  /\ pc' = [pc EXCEPT ![p] = "loop"]
  /\ boundaryVectors' = [boundaryVectors EXCEPT
                           ![p] = generateFovBoundaryVectors(samplesPerEdge[p])]
  /\ rayIndex' = [rayIndex EXCEPT ![p] = 1]
  /\ intercepts' = [intercepts EXCEPT ![p] = <<>>]
  /\ errors' = [errors EXCEPT ![p] = 0]
  /\ submitted' = [submitted EXCEPT
                     ![p] = [k \in 1..Len(generateFovBoundaryVectors(samplesPerEdge[p])) |-> 0]]
  /\ outcome' = [outcome EXCEPT
                   ![p] = [k \in 1..Len(generateFovBoundaryVectors(samplesPerEdge[p])) |-> NoPoint]]
  /\ posted' = [posted EXCEPT
                  ![p] = [k \in 1..Len(generateFovBoundaryVectors(samplesPerEdge[p])) |-> NoBody]]
  /\ UNCHANGED <<apartVars, response, surface, samplesPerEdge, jobId, pollAttempts, phase, thrown,
                 returned, boundaryMeters, rejection, reqs, seen, detail,
                 trianglesMeters>>

\* StartRay that POSTs the request of the next ray along with this one's.
StartRayPair(p) ==
  /\ pc[p] = "loop"
  /\ rayIndex[p] <= Len(boundaryVectors[p])
  /\ pc' = [pc EXCEPT ![p] = "submit"]
  /\ submitted' = [submitted EXCEPT
                     ![p] = [k \in DOMAIN @ |->
                               IF k \in {rayIndex[p], rayIndex[p] + 1}
                               THEN @[k] + 1 ELSE @[k]]]
  /\ UNCHANGED <<apartVars, posted, response, surface, samplesPerEdge, boundaryVectors, rayIndex, intercepts,
                 errors, jobId, pollAttempts, phase, thrown, returned,
                 boundaryMeters, rejection, reqs, seen, detail, outcome,
                 trianglesMeters>>

\* fetchFootprintPolygon 492-503, fetchInterceptPointForRay 379-405: the
\* next ray's request is built and POSTed.
StartRay(p) ==
  /\ pc[p] = "loop"
  /\ rayIndex[p] <= Len(boundaryVectors[p])
  /\ pc' = [pc EXCEPT ![p] = "submit"]
  /\ submitted' = [submitted EXCEPT ![p][rayIndex[p]] = @ + 1]
  /\ posted' = [posted EXCEPT
                  ![p][rayIndex[p]] = calculationRequest(paramsOf(query[p]), ray(p))]
  /\ UNCHANGED <<apartVars, response, surface, samplesPerEdge, boundaryVectors, rayIndex, intercepts,
                 errors, jobId, pollAttempts, phase, thrown, returned,
                 boundaryMeters, rejection, reqs, seen, detail, outcome,
                 trianglesMeters>>

\* fetchInterceptPointForRay 407-451 with pollForCompletion 101-113: the
\* submission response arrives.
onSubmitResponse(n0, r) ==
  LET o == initiate(r)
      n == [n0 EXCEPT !.seen.badSubmit = failedSubmission(r)]
  IN IF ~o.ok THEN throw(n, o.error)
     ELSE IF fetchesImmediately(o.value)
     THEN [n EXCEPT !.pc = "results_now", !.jobId = r.calculationId.v,
                    !.seen.initial = o.value]
     ELSE enterIteration([n EXCEPT !.jobId = r.calculationId.v,
                                   !.pollAttempts = 0, !.phase = "PENDING",
                                   !.seen.initial = IF o.value \in TerminalPhases
                                                    THEN o.value ELSE "NONTERMINAL"])

SubmitResponse(p) ==
  /\ pc[p] = "submit"
  /\ \E r \in SubmitResponses(p, rayIndex[p]) : Becomes(p, onSubmitResponse(Now(p), r))
  /\ UNCHANGED footprintVars

\* pollForCompletion 106-109: the sleep ends and the status request goes out.
WaitDone(p) ==
  /\ pc[p] = "wait"
  /\ Becomes(p, [Now(p) EXCEPT !.pc = "status", !.waits = @ + 1, !.status = @ + 1,
                                !.slept = @ + POLL_INTERVAL_MS])
  /\ UNCHANGED footprintVars

\* onStatusResponse that fetches no results of a COMPLETE job and goes on
\* to the head of the loop.
onStatusResponseFallingThrough(n0, r) ==
  LET o == checkStatus(r)
      n == [n0 EXCEPT !.seen.badStatus = failedStatus(r)]
      m == [n EXCEPT !.phase = o.value,
                     !.seen.terminal = @ \/ o.value \in TerminalPhases,
                     !.seen.exhausted = n.status = MAX_POLL_ATTEMPTS]
  IN IF ~o.ok THEN throw(n, o.error)
     ELSE IF o.value = "FAILED" THEN [m EXCEPT !.pc = "detail"]
     ELSE enterIteration([m EXCEPT !.pollAttempts = @ + 1])

\* pollForCompletion 115-133, 152-157, 166, 104: a status response arrives.
onStatusResponse(n0, r) ==
  LET o == checkStatus(r)
      n == [n0 EXCEPT !.seen.badStatus = failedStatus(r)]
      m == [n EXCEPT !.phase = o.value,
                     !.seen.terminal = @ \/ o.value \in TerminalPhases,
                     !.seen.exhausted = n.status = MAX_POLL_ATTEMPTS]
  IN IF ~o.ok THEN throw(n, o.error)
     ELSE IF o.value = "COMPLETE" THEN [m EXCEPT !.pc = "results"]
     ELSE IF o.value = "FAILED" THEN [m EXCEPT !.pc = "detail"]
     ELSE enterIteration([m EXCEPT !.pollAttempts = @ + 1])

StatusResponse(p) ==
  /\ pc[p] = "status"
  /\ \E r \in StatusResponses : Becomes(p, onStatusResponse(Now(p), r))
  /\ UNCHANGED footprintVars

\* What a results response makes of the ray: readResults, then
\* parseInterceptPoint (fetchInterceptPointForRay 453).
onResultsResponse(n0, r) ==
  LET o == readResults(r)
      n == [n0 EXCEPT !.seen.results = r, !.seen.parsed = o.ok]
      q == IF o.ok THEN parseInterceptPoint(o.value) ELSE Threw(o.error)
  IN IF ~q.ok THEN throw(n, q.error)
     ELSE [n EXCEPT !.pc = "returned", !.returned = q.value]

\* fetchInterceptPointForRay 433-453: the results of a job that was
\* COMPLETE on submission arrive.
ImmediateResultsResponse(p) ==
  /\ pc[p] = "results_now"
  /\ \E r \in ResultsResponses(ray(p), surface[p]) :
       Becomes(p, onResultsResponse(Now(p), r))
  /\ UNCHANGED footprintVars

\* pollForCompletion 135-151, fetchInterceptPointForRay 450-453: the results
\* of a job that a status response reported COMPLETE arrive.
PollResultsResponse(p) ==
  /\ pc[p] = "results"
  /\ \E r \in ResultsResponses(ray(p), surface[p]) :
       Becomes(p, onResultsResponse(Now(p), r))
  /\ UNCHANGED footprintVars

\* pollForCompletion 159-166, 104: the results of a job that a status
\* response reported FAILED arrive.
onDetailResponse(n, r) ==
  LET e == failedDetail(r)
      m == [n EXCEPT !.detail = r]
  IN IF e # NoError THEN throw(m, e)
     ELSE enterIteration([m EXCEPT !.pollAttempts = @ + 1])

DetailArrives(p) ==
  /\ pc[p] = "detail"
  /\ \E r \in DetailResponses : Becomes(p, onDetailResponse(Now(p), r))
  /\ UNCHANGED footprintVars

\* PushIntercept with the list of the intercepts a variable of the module,
\* one list for every invocation.
PushInterceptShared(p) ==
  /\ pc[p] = "returned"
  /\ pc' = [pc EXCEPT ![p] = "loop"]
  /\ intercepts' = [q \in Procs |-> pushIntercept(intercepts[q], returned[p])]
  /\ returned' = [returned EXCEPT ![p] = NoPoint]
  /\ rayIndex' = [rayIndex EXCEPT ![p] = @ + 1]
  /\ seen' = [seen EXCEPT ![p] = NoSeen]
  /\ detail' = [detail EXCEPT ![p] = NoDetail]
  /\ UNCHANGED <<apartVars, posted, response, surface, samplesPerEdge, boundaryVectors, errors, jobId,
                 pollAttempts, phase, thrown, boundaryMeters, rejection,
                 submitted, reqs, outcome, trianglesMeters>>

\* fetchFootprintPolygon 504: the ray resolved.
PushIntercept(p) ==
  /\ pc[p] = "returned"
  /\ pc' = [pc EXCEPT ![p] = "loop"]
  /\ intercepts' = [intercepts EXCEPT ![p] = pushIntercept(@, returned[p])]
  /\ returned' = [returned EXCEPT ![p] = NoPoint]
  /\ rayIndex' = [rayIndex EXCEPT ![p] = @ + 1]
  /\ seen' = [seen EXCEPT ![p] = NoSeen]
  /\ detail' = [detail EXCEPT ![p] = NoDetail]
  /\ UNCHANGED <<apartVars, posted, response, surface, samplesPerEdge, boundaryVectors, errors, jobId,
                 pollAttempts, phase, thrown, boundaryMeters, rejection,
                 submitted, reqs, outcome, trianglesMeters>>

\* CatchError without the try: the ray's error rejects the invocation.
CatchErrorAborts(p) ==
  /\ pc[p] = "thrown"
  /\ pc' = [pc EXCEPT ![p] = "rejected"]
  /\ thrown' = [thrown EXCEPT ![p] = NoError]
  /\ seen' = [seen EXCEPT ![p] = NoSeen]
  /\ detail' = [detail EXCEPT ![p] = NoDetail]
  /\ UNCHANGED <<apartVars, posted, response, surface, samplesPerEdge, boundaryVectors, rayIndex, intercepts,
                 errors, jobId, pollAttempts, phase, returned, boundaryMeters,
                 rejection, submitted, reqs, outcome, trianglesMeters>>

\* fetchFootprintPolygon 505-509: the ray rejected.
CatchError(p) ==
  /\ pc[p] = "thrown"
  /\ pc' = [pc EXCEPT ![p] = "loop"]
  /\ errors' = [errors EXCEPT ![p] = @ + 1]
  /\ thrown' = [thrown EXCEPT ![p] = NoError]
  /\ rayIndex' = [rayIndex EXCEPT ![p] = @ + 1]
  /\ seen' = [seen EXCEPT ![p] = NoSeen]
  /\ detail' = [detail EXCEPT ![p] = NoDetail]
  /\ UNCHANGED <<apartVars, posted, response, surface, samplesPerEdge, boundaryVectors, intercepts, jobId,
                 pollAttempts, phase, returned, boundaryMeters, rejection,
                 submitted, reqs, outcome, trianglesMeters>>

\* fetchFootprintPolygon 512-527: the loop is over.
Finish(p) ==
  /\ pc[p] = "loop"
  /\ rayIndex[p] > Len(boundaryVectors[p])
  /\ IF insufficient(intercepts[p])
     THEN /\ pc' = [pc EXCEPT ![p] = "rejected"]
          /\ rejection' = [rejection EXCEPT
                             ![p] = insufficientError(intercepts[p], errors[p],
                                                      Len(boundaryVectors[p]))]
          /\ UNCHANGED boundaryMeters
     ELSE /\ pc' = [pc EXCEPT ![p] = "resolved"]
          /\ boundaryMeters' = [boundaryMeters EXCEPT ![p] = toBoundaryMeters(intercepts[p])]
          /\ UNCHANGED rejection
  /\ UNCHANGED <<apartVars, posted, response, surface, samplesPerEdge, boundaryVectors, rayIndex, intercepts,
                 errors, jobId, pollAttempts, phase, thrown, returned, submitted,
                 reqs, seen, detail, outcome, trianglesMeters>>

\* NextResponse.json(body, {status}); a response without init has status 200.
Json(status, body) ==
  [status |-> status, body |-> body]

\* route.ts 537-546: the answer to a boundary too small to triangulate.
tooSmall(boundaryPointCount) ==
  Json(422, [error |-> "Insufficient intercepts to form a polygon",
             size |-> boundaryPointCount])

\* route.ts 569-603, the catch of an error that is no APIError, which is
\* every error thrown inside the handler: the error's message, the fixed
\* text with the parts it interpolates, under the status 500.
unexpected(message) ==
  Json(500, [error |-> message, statusCode |-> 500])

\* footprintBody that counts the vertices of the mesh.
footprintBodyCountingVertices(boundary, triangles) ==
  [boundaryMeters |-> boundary,
   trianglesMeters |-> triangles,
   count |-> [boundary |-> Len(boundary) \div 3,
              triangles |-> Len(triangles) \div 3]]

\* route.ts 553-568: the body of the successful answer.  The lengths are
\* multiples of 3 and of 9, so the quotients are whole.
footprintBody(boundary, triangles) ==
  [boundaryMeters |-> boundary,
   trianglesMeters |-> triangles,
   count |-> [boundary |-> Len(boundary) \div 3,
              triangles |-> Len(triangles) \div 9]]

\* route.ts 536-550: the route handler checks the size of the boundary the
\* invocation resolved with and triangulates it; an error of the
\* triangulation goes to the handler's catch.
Triangulate(p) ==
  /\ pc[p] = "resolved"
  /\ trianglesMeters[p] = <<>>
  /\ response[p] = NoResponse
  /\ IF Len(boundaryMeters[p]) \div 3 < 3
     THEN /\ response' = [response EXCEPT ![p] = tooSmall(Len(boundaryMeters[p]) \div 3)]
          /\ UNCHANGED trianglesMeters
     ELSE IF ~triangulateFanXYZ(boundaryMeters[p]).ok
     THEN /\ response' = [response EXCEPT
                            ![p] = unexpected([message |-> triangulateFanXYZ(boundaryMeters[p]).error.message,
                                               detail |-> triangulateFanXYZ(boundaryMeters[p]).error.detail])]
          /\ UNCHANGED trianglesMeters
     ELSE /\ trianglesMeters' = [trianglesMeters EXCEPT
                                   ![p] = triangulateFanXYZ(boundaryMeters[p]).value]
          /\ UNCHANGED response
  /\ UNCHANGED <<apartVars, posted, surface, pc, samplesPerEdge, boundaryVectors, rayIndex,
                 intercepts, errors, jobId, pollAttempts, phase, thrown, returned,
                 boundaryMeters, rejection, submitted, reqs, seen, detail, outcome>>

\* route.ts 553-568: the route handler answers with the boundary and its mesh.
Respond(p) ==
  /\ pc[p] = "resolved"
  /\ trianglesMeters[p] # <<>>
  /\ response[p] = NoResponse
  /\ response' = [response EXCEPT
                    ![p] = Json(200, footprintBody(boundaryMeters[p], trianglesMeters[p]))]
  /\ UNCHANGED <<apartVars, posted, surface, pc, samplesPerEdge, boundaryVectors, rayIndex,
                 intercepts, errors, jobId, pollAttempts, phase, thrown, returned,
                 boundaryMeters, rejection, submitted, reqs, seen, detail, outcome,
                 trianglesMeters>>

\* route.ts 569-603: the invocation rejected, the await at 524 throws and
\* the handler's catch answers.
Fail(p) ==
  /\ pc[p] = "rejected"
  /\ response[p] = NoResponse
  /\ response' = [response EXCEPT ![p] = unexpected(rejection[p])]
  /\ UNCHANGED <<apartVars, posted, surface, pc, samplesPerEdge, boundaryVectors, rayIndex,
                 intercepts, errors, jobId, pollAttempts, phase, thrown, returned,
                 boundaryMeters, rejection, submitted, reqs, seen, detail, outcome,
                 trianglesMeters>>

\* A step of invocation p.
Step(p) ==
  \/ Begin(p)
  \/ StartRay(p)
  \/ SubmitResponse(p)
  \/ WaitDone(p)
  \/ StatusResponse(p)
  \/ ImmediateResultsResponse(p)
  \/ PollResultsResponse(p)
  \/ DetailArrives(p)
  \/ PushIntercept(p)
  \/ CatchError(p)
  \/ Finish(p)
  \/ Triangulate(p)
  \/ Respond(p)
  \/ Fail(p)

Next ==
  \E p \in Procs : Step(p)

Spec == Init /\ [][Next]_vars

\* One invocation of the smallest footprint, one sample per edge, 4 rays.
LiveInit ==
  /\ Init
  /\ samplesPerEdge[1] = 1

\* Every fetch and every sleep returns: the step that follows an await is
\* taken once it stays possible, and all other steps are the invocation's
\* own.
LiveSpec == LiveInit /\ [][Next]_vars /\ WF_vars(Next)

\* Two invocations for different instants, and so different surfaces, of the
\* smallest footprint.
TwoInit ==
  /\ surface \in [Procs -> Surfaces]
  /\ surface[1] < surface[2]
  /\ pc = [p \in Procs |-> "call"]
  /\ samplesPerEdge = [p \in Procs |-> 1]
  /\ Fresh
  /\ NoCalls
  /\ Elsewhere
  /\ Accepted

\* The service that answers briefly: a job is COMPLETE or FAILED by its
\* second status response, a fetch is rejected or answered well-formed, the
\* results of a COMPLETE job are tabular and those of a FAILED job carry
\* the error.
Brief(p) ==
  /\ pc[p] = "wait" => reqs[p].status = 1
  /\ phase[p] \in {"PENDING", "COMPLETE", "FAILED"}
  /\ seen[p].initial \in {"NONE", "NONTERMINAL", "COMPLETE"}
  /\ thrown[p] \in {NoError, TransportError,
                     Err("Error", "WGC2 calculation failed", <<"E_CALC">>)}
  /\ detail[p] \in {NoDetail, DetailResponse("json", "E_CALC", "")}
  /\ seen[p].results.http \in {"none", "reject", "json"}
  /\ seen[p].results.http = "json" =>
       /\ seen[p].results.result # <<>>
       /\ seen[p].results.body = NoPayload

\* The two invocations interleave at their awaits.
TwoNext ==
  \E p \in Procs :
    \/ Begin(p) /\ Brief(p)'
    \/ StartRay(p) /\ Brief(p)'
    \/ SubmitResponse(p) /\ Brief(p)'
    \/ WaitDone(p) /\ Brief(p)'
    \/ StatusResponse(p) /\ Brief(p)'
    \/ ImmediateResultsResponse(p) /\ Brief(p)'
    \/ PollResultsResponse(p) /\ Brief(p)'
    \/ DetailArrives(p) /\ Brief(p)'
    \/ PushIntercept(p) /\ Brief(p)'
    \/ CatchError(p) /\ Brief(p)'
    \/ Finish(p) /\ Brief(p)'
    \/ Triangulate(p) /\ Brief(p)'
    \/ Respond(p) /\ Brief(p)'
    \/ Fail(p) /\ Brief(p)'

TwoSpec == TwoInit /\ [][TwoNext]_vars

\* One invocation with the sampling densities up to MaxGenSamples.
GenInit ==
  /\ surface \in [Procs -> Surfaces \cup {0}]
  /\ pc \in [Procs -> {"call", "unused"}]
  /\ samplesPerEdge \in [Procs -> 1..MaxGenSamples]
  /\ \A p \in Procs : pc[p] = IF p = 1 THEN "call" ELSE "unused"
  /\ surface[1] \in Surfaces /\ surface[2] = 0
  /\ samplesPerEdge[2] = 1
  /\ Fresh
  /\ NoCalls
  /\ Elsewhere
  /\ Accepted

\* The service out of reach: every POST is rejected.
Unreachable(p) ==
  /\ pc[p] \in {"call", "loop", "submit", "thrown", "rejected"}
  /\ thrown[p] \in {NoError, TransportError}

\* The rays are generated and walked in their order, each one failing.
GenNext ==
  \E p \in Procs :
    \/ Begin(p) /\ Unreachable(p)'
    \/ StartRay(p) /\ Unreachable(p)'
    \/ SubmitResponse(p) /\ Unreachable(p)'
    \/ CatchError(p) /\ Unreachable(p)'
    \/ Finish(p) /\ Unreachable(p)'
    \/ Fail(p) /\ Unreachable(p)'

GenSpec == GenInit /\ [][GenNext]_vars

\* ------------------------------------------- the routines on their own

\* The most vertices of a vertex list given to the geometry routines.
MaxVertices == 4

\* A vertex in metres, as parseVertices makes it.
Vertex(x, y, z) ==
  [x |-> x, y |-> y, z |-> z]

\* The corners of a square of side 3 in the plane z = 0 and a point above
\* the first of them.
GridPoints ==
  {Vertex(0, 0, 0), Vertex(3, 0, 0), Vertex(3, 3, 0), Vertex(0, 3, 0),
   Vertex(0, 0, 4)}

VertexLists ==
  UNION {[1..n -> GridPoints] : n \in 0..MaxVertices}

\* A length: whole + the sum of the square roots of surds, none of them a
\* square, in the order they were added.  The rounding of the irrational
\* roots and of their sums to 64-bit floats is left out.
Length(whole, surds) ==
  [whole |-> whole, surds |-> surds]

\* Math.sqrt of a natural number, exact for a square.
sqrt(n) ==
  IF \E r \in 0..n : r * r = n
  THEN Length(CHOOSE r \in 0..n : r * r = n, <<>>)
  ELSE Length(0, <<n>>)

\* a + b on lengths
plus(a, b) ==
  Length(a.whole + b.whole, a.surds \o b.surds)

\* calculateBoundaryMeters that leaves the polygon open: its loop stops
\* before the last vertex.
calculateBoundaryMetersOpen(vertexList) ==
  LET n == Len(vertexList)
      segment(i) ==
        LET current == vertexList[i + 1]
            next == vertexList[((i + 1) % n) + 1]
            dx == next.x - current.x
            dy == next.y - current.y
            dz == next.z - current.z
        IN sqrt(dx * dx + dy * dy + dz * dz)
      sum[i \in 0..n] ==
        IF i = 0 THEN Length(0, <<>>) ELSE plus(sum[i - 1], segment(i - 1))
  IN IF n < 2 THEN Length(0, <<>>) ELSE sum[n - 1]

\* calculateBoundaryMeters (route.ts 120-135): 0 for fewer than 2 vertices,
\* else the sum over every vertex i of its distance to the vertex
\* (i + 1) % length.
calculateBoundaryMeters(vertexList) ==
  LET n == Len(vertexList)
      segment(i) ==
        LET current == vertexList[i + 1]
            next == vertexList[((i + 1) % n) + 1]
            dx == next.x - current.x
            dy == next.y - current.y
            dz == next.z - current.z
        IN sqrt(dx * dx + dy * dy + dz * dz)
      sum[i \in 0..n] ==
        IF i = 0 THEN Length(0, <<>>) ELSE plus(sum[i - 1], segment(i - 1))
  IN IF n < 2 THEN Length(0, <<>>) ELSE sum[n]

\* new Float32Array([x, y, z, x, y, z, ...]) of a vertex list
RECURSIVE toFloat32Array(_)
toFloat32Array(vertexList) ==
  IF vertexList = <<>> THEN <<>>
  ELSE <<fround(Head(vertexList).x), fround(Head(vertexList).y),
         fround(Head(vertexList).z)>> \o toFloat32Array(Tail(vertexList))

\* createFanTriangulation that walks the polygon as a strip: triangle i is
\* made of the vertices i - 1, i and i + 1.
createFanTriangulationStrip(vertexList) ==
  LET n == Len(vertexList)
      indices[i \in 1..n] ==
        IF i >= n THEN <<>> ELSE <<i - 1, i, i + 1>> \o indices[i + 1]
  IN IF n < 3 THEN [null |-> TRUE, indices |-> <<>>]
     ELSE [null |-> FALSE, indices |-> indices[1]]

\* triangulation.ts 26-40, createFanTriangulation: null for fewer than three
\* vertices, else the indices 0, i, i + 1 pushed for i = 1 .. length - 2.
createFanTriangulation(vertexList) ==
  LET n == Len(vertexList)
      indices[i \in 1..n] ==
        IF i >= n - 1 THEN <<>> ELSE <<0, i, i + 1>> \o indices[i + 1]
  IN IF n < 3 THEN [null |-> TRUE, indices |-> <<>>]
     ELSE [null |-> FALSE, indices |-> indices[1]]

\* What a routine called on its own leaves alone.
invocationVars ==
  <<surface, pc, samplesPerEdge, boundaryVectors, rayIndex, intercepts, errors,
    jobId, pollAttempts, phase, thrown, returned, boundaryMeters, rejection,
    submitted, reqs, seen, detail, outcome, trianglesMeters, response,
    query, posted, calc, page>>

\* What a step of the single-calculation route or of the viewer page leaves
\* alone.
invocationVarsBut ==
  <<surface, pc, samplesPerEdge, boundaryVectors, rayIndex, intercepts, errors,
    jobId, pollAttempts, phase, thrown, returned, boundaryMeters, rejection,
    submitted, reqs, seen, detail, outcome, trianglesMeters, response,
    query, posted, callVars, outIndices>>

\* No invocation of fetchFootprintPolygon is under way.
NoInvocation ==
  /\ surface = [p \in Procs |-> 0]
  /\ pc = [p \in Procs |-> "unused"]
  /\ samplesPerEdge = [p \in Procs |-> 1]
  /\ Fresh
  /\ Accepted

\* A vertex list of up to MaxVertices vertices, not yet measured or fanned.
PolyInit ==
  /\ NoInvocation
  /\ Elsewhere
  /\ inVertices \in VertexLists
  /\ outPerimeter = NotCalled
  /\ outFan = NotCalled
  /\ inResultData = NoPayload
  /\ outPoint = NotCalled
  /\ outIndices = NotCalled

\* const boundaryMeters = calculateBoundaryMeters(vertices)
CallCalculateBoundaryMeters ==
  /\ outPerimeter = NotCalled
  /\ outPerimeter' = Returned(calculateBoundaryMeters(inVertices))
  /\ UNCHANGED <<invocationVars, outIndices, inVertices, outFan, inResultData, outPoint>>

\* triangulateFanXYZ(boundary) on the Float32Array of the vertices
CallTriangulateFanXYZ ==
  /\ outFan = NotCalled
  /\ outFan' = triangulateFanXYZ(toFloat32Array(inVertices))
  /\ UNCHANGED <<invocationVars, outIndices, inVertices, outPerimeter, inResultData, outPoint>>

\* createFanTriangulation(vertices)
CallCreateFanTriangulation ==
  /\ outIndices = NotCalled
  /\ outIndices' = Returned(createFanTriangulation(inVertices))
  /\ UNCHANGED <<invocationVars, inVertices, outPerimeter, outFan, inResultData, outPoint>>

PolyNext ==
  \/ CallCalculateBoundaryMeters
  \/ CallTriangulateFanXYZ
  \/ CallCreateFanTriangulation

PolySpec == PolyInit /\ [][PolyNext]_vars

\* The most cells of a row given to parseInterceptPoint.
MaxCells == 4

\* The columns of a payload: X, Y and Z in this and in another order, behind
\* and around a further column, in small letters, one of them in small
\* letters, one of them missing, none at all.
ColumnLists ==
  {<<"X", "Y", "Z">>, <<"Z", "X", "Y">>, <<"T", "Y", "X", "Z">>,
   <<"x", "y", "z">>, <<"X", "y", "Z">>, <<"X", "Y">>, <<>>}

\* The kinds of a cell that are no JSON number.
OtherKinds ==
  {"numtext", "prefixtext", "text", "null"}

\* A first row: numbers only, 2 to MaxCells of them, the cell at position k
\* holding 10 k; MaxCells cells, one of them no JSON number; or no array.
FirstRows ==
  {Row(TRUE, [k \in 1..n |-> Cell("number", 10 * k)]) : n \in 2..MaxCells}
  \cup {Row(TRUE, [k \in 1..MaxCells |->
                     Cell(IF k = j THEN kind ELSE "number", 10 * k)]) :
          j \in 1..MaxCells, kind \in OtherKinds}
  \cup {Row(FALSE, <<>>)}

\* A second row, of other numbers.
SecondRow ==
  Row(TRUE, [k \in 1..MaxCells |-> Cell("number", 100 + k)])

RowLists ==
  {<<>>} \cup {<<r>> : r \in FirstRows} \cup {<<r, SecondRow>> : r \in FirstRows}

\* The payloads given to parseInterceptPoint: tabular ones, and ones
\* without a columns array or without a rows array.
ParserInputs ==
  {Payload(TRUE, c, TRUE, r, "") : c \in ColumnLists, r \in RowLists}
  \cup {Payload(FALSE, <<>>, TRUE, r, "") : r \in RowLists}
  \cup {Payload(TRUE, c, FALSE, <<>>, "") : c \in ColumnLists}
  \cup {Payload(FALSE, <<>>, FALSE, <<>>, "")}

\* A payload not yet parsed.
ParseInit ==
  /\ NoInvocation
  /\ Elsewhere
  /\ inVertices = <<>>
  /\ outPerimeter = NotCalled
  /\ outFan = NotCalled
  /\ inResultData \in ParserInputs
  /\ outPoint = NotCalled
  /\ outIndices = NotCalled

\* parseInterceptPoint(resultData)
CallParseInterceptPoint ==
  /\ outPoint = NotCalled
  /\ outPoint' = parseInterceptPoint(inResultData)
  /\ UNCHANGED <<invocationVars, outIndices, inVertices, outPerimeter, outFan, inResultData>>

ParseNext ==
  CallParseInterceptPoint

ParseSpec == ParseInit /\ [][ParseNext]_vars

\* The queries put to the route: with and without utc; kernelSetId absent,
\* a number, a number followed by letters, letters; shape and sr absent or
\* named; each half-angle absent, positive, zero, negative, letters or
\* Infinity (hv: absent, zero or Infinity); spe absent, letters, or a whole
\* number from -1 to 2.
Queries ==
  {Query(utc, k, shape, sr, hh, hv, spe, Absent) :
     utc \in {Absent, Param("text", "T0")},
     k \in {Absent, Param("numtext", 7), Param("prefixtext", 7), Param("text", "abc")},
     shape \in {Absent, Param("text", "ELLIPSOID")},
     sr \in {Absent, Param("text", "LATITUDINAL")},
     hh \in {Absent, Param("numtext", 5), Param("numtext", 0), Param("numtext", -5),
             Param("text", "abc"), Param("infinity", 0)},
     hv \in {Absent, Param("numtext", 0), Param("infinity", 0)},
     spe \in {Absent, Param("text", "abc")} \cup {Param("numtext", n) : n \in -1..2}}

\* One request to the route, its query not yet read.
QueryInit ==
  /\ surface = [p \in Procs |-> IF p = 1 THEN 7 ELSE 0]
  /\ pc = [p \in Procs |-> IF p = 1 THEN "request" ELSE "unused"]
  /\ samplesPerEdge = [p \in Procs |-> 1]
  /\ Fresh
  /\ NoCalls
  /\ Elsewhere
  /\ \E q \in Queries :
       query = [p \in Procs |-> IF p = 1 THEN q ELSE acceptedQuery(1)]

\* route.ts 459-522: the handler reads the query and refuses it with the
\* status 400 or goes on to call fetchFootprintPolygon.
Validate(p) ==
  /\ pc[p] = "request"
  /\ IF validate(query[p]) # ""
     THEN /\ pc' = [pc EXCEPT ![p] = "refused"]
          /\ response' = [response EXCEPT
                            ![p] = Json(400, [error |-> validate(query[p])])]
          /\ UNCHANGED samplesPerEdge
     ELSE /\ pc' = [pc EXCEPT ![p] = "call"]
          /\ samplesPerEdge' = [samplesPerEdge EXCEPT
                                  ![p] = paramsOf(query[p]).samplesPerEdge.n]
          /\ UNCHANGED response
  /\ UNCHANGED <<apartVars, posted, surface, boundaryVectors, rayIndex, intercepts,
                 errors, jobId, pollAttempts, phase, thrown, returned,
                 boundaryMeters, rejection, submitted, reqs, seen, detail, outcome,
                 trianglesMeters>>

\* The request is answered while the service is out of reach.
QueryNext ==
  \E p \in Procs :
    \/ Validate(p)
    \/ Begin(p) /\ Unreachable(p)'
    \/ StartRay(p) /\ Unreachable(p)'
    \/ SubmitResponse(p) /\ Unreachable(p)'
    \/ CatchError(p) /\ Unreachable(p)'
    \/ Finish(p) /\ Unreachable(p)'
    \/ Fail(p) /\ Unreachable(p)'

QuerySpec == QueryInit /\ [][QueryNext]_vars

\* Two requests for the same footprint.
CauseInit ==
  /\ surface = [p \in Procs |-> 7]
  /\ pc = [p \in Procs |-> "call"]
  /\ samplesPerEdge = [p \in Procs |-> 1]
  /\ Fresh
  /\ NoCalls
  /\ Elsewhere
  /\ Accepted

\* The service that rejects: it answers every POST with a status that is no
\* success, or with a body that reports an error.
Rejecting(p) ==
  /\ pc[p] \in {"call", "loop", "submit", "thrown", "rejected"}
  /\ thrown[p] \in {NoError,
                     Err("Error", "Failed to initiate WGC2 calculation", <<>>),
                     Err("Error", "WGC2 calculation request failed", <<"E_SUBMIT">>)}

\* The first request finds the service out of reach, the second finds it
\* rejecting.
Upstream(p) ==
  IF p = 1 THEN Unreachable(p) ELSE Rejecting(p)

CauseNext ==
  \E p \in Procs :
    \/ Begin(p) /\ Upstream(p)'
    \/ StartRay(p) /\ Upstream(p)'
    \/ SubmitResponse(p) /\ Upstream(p)'
    \/ CatchError(p) /\ Upstream(p)'
    \/ Finish(p) /\ Upstream(p)'
    \/ Fail(p) /\ Upstream(p)'

CauseSpec == CauseInit /\ [][CauseNext]_vars

\* ------------------------------------------- the single-calculation route

\* part_004:208, const maxPollAttempts = 12
maxPollAttempts == 12

\* How a GET of the service can end: as a fetch of the library can, the
\* HTTP status 404 told from the other failures, and a falsy JSON primitive.
CalcHttp == HttpFailures \cup {"notfound", "jsonfalsy", "json"}

\* The responses to the submission and to a status request.
RouteResponses ==
  {CalcResponse(h, "", "", "", CalcId("absent", 0), "") :
     h \in HttpFailures \cup {"notfound"}}
  \cup {CalcResponse("json", st, e, "", id, ph) :
          st \in {"OK", "ERROR"}, e \in {"", "E_CALC"},
          id \in {CalcId("string", 1), CalcId("string", 2), CalcId("absent", 0),
                  CalcId("number", 1)},
          ph \in {"", "RUNNING", "COMPLETE", "FAILED"}}

\* A results response: the result it carries, with its error field and the
\* number of vertices parseVertices finds in it.
CalcResult(http, error, n) ==
  [http |-> http, error |-> error, vertices |-> n]

CalcResults ==
  {CalcResult(h, "", 0) : h \in CalcHttp \ {"json"}}
  \cup {CalcResult("json", e, n) : e \in {"", "E_RESULT"}, n \in {0, 2, 3}}

\* The handler's catch block (1018-1047): the response with the status of
\* the WGC2APIError, or 500 for any other error.
calcAnswer(c, status) ==
  [c EXCEPT !.pc = "answered", !.status = status]

\* 972-1017: parseVertices, the size check and the response.
calcProcess(c) ==
  IF ~c.resultData.given THEN calcAnswer(c, 500)
  ELSE IF c.resultData.vertices = 0 THEN calcAnswer(c, 500)
  ELSE IF c.resultData.vertices < 3 THEN calcAnswer(c, 500)
  ELSE calcAnswer(c, 200)

\* 550-554 and 955-969: the head of the while loop, the wait before every
\* attempt but the first, and the throw behind the loop.
calcLoopHead(c) ==
  IF c.phase # "COMPLETE" /\ c.pollAttempts < maxPollAttempts
  THEN [c EXCEPT !.pc = IF c.pollAttempts > 0 THEN "wait" ELSE "status"]
  ELSE IF c.phase # "COMPLETE" \/ ~c.resultData.given
  THEN calcAnswer(c, 504)
  ELSE calcProcess(c)

\* validateJobId (110-118) on the calculationId of the submission response
calcJobIdValid(id) ==
  id.kind = "string"

\* 570-582: the handle holds none of the characters the handler refuses
\* (the handle 2 stands for one that does).
calcJobIdClean(v) ==
  v # 2

\* 277-371 and the three branches at 373, 451 and 530: what the handler
\* makes of the submission response r.
calcSubmitted(c, r) ==
  IF r.http \in {"reject", "nonok", "notfound", "badjson"} THEN calcAnswer(c, 502)
  ELSE IF r.http = "jsonnull" THEN calcAnswer(c, 500)
  ELSE IF r.status # "OK" \/ r.error # "" THEN calcAnswer(c, 502)
  ELSE IF ~calcJobIdValid(r.calculationId) THEN calcAnswer(c, 500)
  ELSE LET initialPhase == OrElse(r.phase, "PENDING")
           d == [c EXCEPT !.jobId = r.calculationId.v, !.phase = initialPhase]
       IN IF initialPhase = "COMPLETE" THEN [d EXCEPT !.pc = "results"]
          ELSE IF initialPhase = "FAILED"
          THEN [d EXCEPT !.pc = "detail", !.failedIn = "submission"]
          ELSE calcLoopHead(d)

\* 556-952: what the handler makes of the response r to a status request.
calcPolled(c, r) ==
  IF ~calcJobIdClean(c.jobId) THEN calcAnswer(c, 500)
  ELSE LET d == [c EXCEPT !.requests = @ + 1,
                          !.late = IF c.failedIn # "" THEN @ + 1 ELSE @]
       IN IF r.http = "reject" THEN calcAnswer(d, 502)
          ELSE IF r.http = "notfound" THEN calcAnswer(d, 404)
          ELSE IF r.http \in {"nonok", "badjson"} THEN calcAnswer(d, 502)
          ELSE IF r.http = "jsonnull" THEN calcAnswer(d, 500)
          ELSE IF r.status # "OK" \/ r.error # "" THEN calcAnswer(d, 502)
          ELSE LET ph == OrElse(r.phase, "PENDING")
               IN IF ph = "COMPLETE" THEN [d EXCEPT !.phase = ph, !.pc = "results"]
                  ELSE IF ph = "FAILED"
                  THEN [d EXCEPT !.phase = ph, !.pc = "detail",
                                 !.failedIn = "status"]
                  ELSE calcLoopHead([d EXCEPT !.phase = ph,
                                              !.observed = @ + 1,
                                              !.pollAttempts = @ + 1])

\* 375-449 and 705-832: what the handler makes of the results response r
\* of a COMPLETE calculation, seen at submission or in a status response.
calcResults(c, r) ==
  IF r.http = "reject" THEN calcAnswer(c, 502)
  ELSE IF r.http = "notfound"
  THEN calcAnswer(c, IF c.requests > 0 THEN 404 ELSE 502)
  ELSE IF r.http \in {"nonok", "badjson", "jsonnull", "jsonfalsy"}
  THEN calcAnswer(c, 502)
  ELSE IF r.error # "" THEN calcAnswer(c, 502)
  ELSE LET d == [c EXCEPT !.resultData = [given |-> TRUE, error |-> "",
                                         vertices |-> r.vertices]]
       IN IF c.requests > 0 THEN calcLoopHead(d) ELSE calcProcess(d)

\* 451-529 and 833-950: what the handler makes of the results response of
\* a FAILED calculation, seen at submission or in a status response.
calcFailed(c, http) ==
  LET d == [c EXCEPT !.detailHttp = http]
  IN IF http = "reject" THEN calcAnswer(d, 502)
     ELSE IF http = "notfound"
     THEN calcAnswer(d, IF c.failedIn = "status" THEN 404 ELSE 502)
     ELSE IF http \in {"nonok", "badjson"} THEN calcAnswer(d, 502)
     ELSE IF http = "jsonnull" THEN calcAnswer(d, 500)
     ELSE calcAnswer(d, 502)

\* The request reaches the handler, which POSTs the calculation.
CalcInit ==
  /\ NoInvocation
  /\ NoCalls
  /\ page = NoPage
  /\ calc = [NoCalc EXCEPT !.pc = "submit"]

\* await fetch(`${WGC2}/calculation/new`) and what follows it
CalcSubmitResponse ==
  /\ calc.pc = "submit"
  /\ \E r \in RouteResponses : calc' = calcSubmitted(calc, r)
  /\ UNCHANGED <<invocationVarsBut, page>>

\* await new Promise(resolve => setTimeout(resolve, pollIntervalMs))
CalcWaitDone ==
  /\ calc.pc = "wait"
  /\ calc' = [calc EXCEPT !.pc = "status"]
  /\ UNCHANGED <<invocationVarsBut, page>>

\* await fetch(statusUrl) and what follows it
CalcStatusResponse ==
  /\ calc.pc = "status"
  /\ \E r \in RouteResponses : calc' = calcPolled(calc, r)
  /\ UNCHANGED <<invocationVarsBut, page>>

\* await fetch(resultsUrl) for a COMPLETE calculation and what follows it
CalcResultsResponse ==
  /\ calc.pc = "results"
  /\ \E r \in CalcResults : calc' = calcResults(calc, r)
  /\ UNCHANGED <<invocationVarsBut, page>>

\* await fetch(resultsUrl) for a FAILED calculation and what follows it
CalcDetailResponse ==
  /\ calc.pc = "detail"
  /\ \E h \in CalcHttp \ {"jsonfalsy"} : calc' = calcFailed(calc, h)
  /\ UNCHANGED <<invocationVarsBut, page>>

CalcNext ==
  \/ CalcSubmitResponse
  \/ CalcWaitDone
  \/ CalcStatusResponse
  \/ CalcResultsResponse
  \/ CalcDetailResponse

CalcSpec == CalcInit /\ [][CalcNext]_vars

\* ---------------------------------------------------------- the viewer page

\* The most invocations of fetchFootprint of one page.
MaxFetches == 3

\* The message of an error, a text that may end in a number
\* (`HTTP ${response.status}`); NoMessage is null.
Message(text, code) ==
  [text |-> text, code |-> code]

NoMessage == Message("", 0)

\* The details of an error; NoDetails is null.
ErrorDetails(message, statusCode) ==
  [message |-> message, statusCode |-> statusCode]

NoDetails == ErrorDetails(NoMessage, 0)

\* The statuses a request of the page is answered with when it fails: those
\* of the ray-sampling route (400, 422, 500) and those formatErrorMessage
\* tells apart besides (502, 504).
ErrorStatuses == {400, 422, 500, 502, 504}

\* The body of an error response as response.json() yields it: its error
\* field (NoMessage when absent or empty) and its statusCode field (0 when
\* absent).
ErrorBodies ==
  {[error |-> e, statusCode |-> c] :
     e \in {NoMessage, Message("E_ROUTE", 0)}, c \in {0} \cup ErrorStatuses}

\* Home 136-139: the state of the component when it is first rendered, with
\* no invocation of fetchFootprint begun (flights: those in flight, each at
\* its await; started: how many began; last: how the one that settled last
\* ended).
mounted ==
  [mounted |-> TRUE, effect |-> FALSE, loading |-> TRUE, error |-> NoMessage,
   errorDetails |-> NoDetails, footprintData |-> FALSE,
   flights |-> <<>>, started |-> 0, last |-> "none"]

\* fetchFootprintBegin that leaves the error of the last invocation in place.
fetchFootprintBeginKeepingError(pg) ==
  [pg EXCEPT !.loading = TRUE,
             !.errorDetails = NoDetails,
             !.flights = Append(@, [pc |-> "fetch", status |-> 0]),
             !.started = @ + 1]

\* fetchFootprint 142-165: the state is reset and the request goes out.
fetchFootprintBegin(pg) ==
  [pg EXCEPT !.loading = TRUE,
             !.error = NoMessage,
             !.errorDetails = NoDetails,
             !.flights = Append(@, [pc |-> "fetch", status |-> 0]),
             !.started = @ + 1]

\* The sequence without its element i.
without(list, i) ==
  [k \in 1..(Len(list) - 1) |-> IF k < i THEN list[k] ELSE list[k + 1]]

\* fetchFootprint 182-188: the catch and the finally blocks, for the
\* invocation i that threw an error with the message msg.
fetchFootprintCatch(pg, i, msg) ==
  [pg EXCEPT !.error = msg,
             !.loading = FALSE,
             !.flights = without(@, i),
             !.last = "failed"]

\* fetchFootprint 180-181 and 186-188: the data are kept, then the finally
\* block.
fetchFootprintDone(pg, i) ==
  [pg EXCEPT !.footprintData = TRUE,
             !.loading = FALSE,
             !.flights = without(@, i),
             !.last = "ok"]

\* fetchFootprint 167-178: the details are kept and the error is thrown, for
\* the body errorData of a response with the status st.
fetchFootprintRefused(pg, i, errorData, st) ==
  LET msg == IF errorData.error # NoMessage THEN errorData.error
             ELSE Message("HTTP", st)
      code == IF errorData.statusCode # 0 THEN errorData.statusCode ELSE st
  IN fetchFootprintCatch([pg EXCEPT !.errorDetails = ErrorDetails(msg, code)],
                         i, msg)

\* Home 212 and 225: what the page shows.
showsLoading(pg) ==
  pg.loading

showsErrorPanel(pg) ==
  pg.error # NoMessage

PageInit ==
  /\ NoInvocation
  /\ NoCalls
  /\ calc = NoCalc
  /\ page = NoPage

\* The component is rendered for the first time.
Mount ==
  /\ page = NoPage
  /\ page' = mounted
  /\ UNCHANGED <<invocationVarsBut, calc>>

\* useEffect(() => { fetchFootprint(); }, [])
Effect ==
  /\ page.mounted
  /\ ~page.effect
  /\ page' = [fetchFootprintBegin(page) EXCEPT !.effect = TRUE]
  /\ UNCHANGED <<invocationVarsBut, calc>>

\* The button of the error panel is clicked: onClick={fetchFootprint}.
TryAgain ==
  /\ page.mounted
  /\ showsErrorPanel(page)
  /\ page.started < MaxFetches
  /\ page' = fetchFootprintBegin(page)
  /\ UNCHANGED <<invocationVarsBut, calc>>

\* await fetch(`/api/footprint?...`) of an invocation ends: the transport
\* fails, or a response arrives, ok or not.
FetchSettles ==
  /\ page.mounted
  /\ \E i \in 1..Len(page.flights) :
       /\ page.flights[i].pc = "fetch"
       /\ \/ page' = fetchFootprintCatch(page, i, Message("Failed to fetch", 0))
          \/ page' = [page EXCEPT !.flights[i] = [pc |-> "json", status |-> 200]]
          \/ \E st \in ErrorStatuses :
               page' = [page EXCEPT !.flights[i] = [pc |-> "errorjson", status |-> st]]
  /\ UNCHANGED <<invocationVarsBut, calc>>

\* await response.json().catch(...) of a response that is not ok ends.
ErrorBodyArrives ==
  /\ page.mounted
  /\ \E i \in 1..Len(page.flights) :
       /\ page.flights[i].pc = "errorjson"
       /\ \/ page' = fetchFootprintRefused(
                       page, i,
                       [error |-> Message("Unknown error", 0),
                        statusCode |-> page.flights[i].status],
                       page.flights[i].status)
          \/ \E errorData \in ErrorBodies :
               page' = fetchFootprintRefused(page, i, errorData,
                                             page.flights[i].status)
  /\ UNCHANGED <<invocationVarsBut, calc>>

\* await response.json() of an ok response ends, with the data or with a
\* syntax error.
BodyArrives ==
  /\ page.mounted
  /\ \E i \in 1..Len(page.flights) :
       /\ page.flights[i].pc = "json"
       /\ \/ page' = fetchFootprintDone(page, i)
          \/ page' = fetchFootprintCatch(page, i, Message("Unexpected token", 0))
  /\ UNCHANGED <<invocationVarsBut, calc>>

PageNext ==
  \/ Mount
  \/ Effect
  \/ TryAgain
  \/ FetchSettles
  \/ ErrorBodyArrives
  \/ BodyArrives

PageSpec == PageInit /\ [][PageNext]_vars

\* ------------------------------------------------------------------ claims

Invoked(p) ==
  pc[p] \notin {"unused", "call"}

Done(p) ==
  pc[p] \in {"resolved", "rejected"}

NumRays(p) ==
  Len(boundaryVectors[p])

\* The rays of invocation p that resolved with a point.
Succeeded(p) ==
  {k \in 1..NumRays(p) : outcome[p][k] # NoPoint}

IsTimeout(e) ==
  e.message = "Calculation did not complete within MAX_POLL_ATTEMPTS attempts"

\* C1: no failure of a ray aborts the batch: whatever the earlier rays came
\* to, every ray of the footprint is submitted exactly once, the rays before
\* the current one and the current one once it started, and the invocation
\* ends only with every ray submitted once.
C1_EveryRayAttemptedOnce ==
  \A p \in Procs :
    Invoked(p) =>
      /\ \A k \in 1..NumRays(p) :
           submitted[p][k] =
             IF k < rayIndex[p] \/ (k = rayIndex[p] /\ pc[p] # "loop") THEN 1 ELSE 0
      /\ Done(p) => \A k \in 1..NumRays(p) : submitted[p][k] = 1

\* An invocation that ended with the first ray failed and the last submitted.
C1_Witness ==
  \E p \in Procs :
    /\ Done(p)
    /\ outcome[p][1] = NoPoint
    /\ errors[p] >= 1
    /\ submitted[p][NumRays(p)] = 1

\* The boundary expected from the rays k.. of invocation p: the points
\* parsed for the rays that succeeded, in ray order, each coordinate in
\* metres as a 32-bit float.
RECURSIVE ExpectedBoundary(_, _)
ExpectedBoundary(p, k) ==
  IF k > NumRays(p) THEN <<>>
  ELSE IF outcome[p][k] = NoPoint THEN ExpectedBoundary(p, k + 1)
  ELSE <<fround(outcome[p][k][1] * 1000), fround(outcome[p][k][2] * 1000),
         fround(outcome[p][k][3] * 1000)>> \o ExpectedBoundary(p, k + 1)

\* C2: a resolved invocation's boundary is the points parsed for the rays
\* that succeeded, in ray order, one entry per successful ray and nothing
\* for a failed one.
C2_BoundaryIsSuccessesInRayOrder ==
  \A p \in Procs :
    pc[p] = "resolved" => boundaryMeters[p] = ExpectedBoundary(p, 1)

\* A resolved invocation with a failed ray between two successful ones.
C2_Witness ==
  \E p \in Procs :
    /\ pc[p] = "resolved"
    /\ \E j, k, l \in 1..NumRays(p) :
         /\ j < k /\ k < l
         /\ outcome[p][j] # NoPoint
         /\ outcome[p][k] = NoPoint
         /\ outcome[p][l] # NoPoint

\* C3: an invocation of which at least 3 rays succeeded resolves, with as
\* many boundary points as rays that succeeded; with one ray of N >= 4
\* failed the boundary has N - 1 points.
C3_ResolvesWithThreeOrMore ==
  \A p \in Procs :
    Done(p) =>
      /\ Cardinality(Succeeded(p)) >= 3 =>
           /\ pc[p] = "resolved"
           /\ Len(boundaryMeters[p]) = 3 * Cardinality(Succeeded(p))
      /\ (NumRays(p) >= 4 /\ Cardinality(Succeeded(p)) = NumRays(p) - 1) =>
           /\ pc[p] = "resolved"
           /\ Len(boundaryMeters[p]) = 3 * (NumRays(p) - 1)

\* A resolved invocation of which exactly one ray failed.
C3_Witness ==
  \E p \in Procs :
    /\ pc[p] = "resolved"
    /\ NumRays(p) >= 4
    /\ Cardinality(Succeeded(p)) = NumRays(p) - 1
    /\ errors[p] = 1

\* C4: an invocation rejects only with every ray attempted and fewer than 3
\* succeeded, and then it does: the error is 'Insufficient intercepts',
\* carries the number of successes, of failures and of rays, failures plus
\* successes being the rays, and no boundary is returned.
C4_RejectsWithInsufficientIntercepts ==
  \A p \in Procs :
    /\ pc[p] = "rejected" =>
         /\ \A k \in 1..NumRays(p) : submitted[p][k] = 1
         /\ rayIndex[p] = NumRays(p) + 1
         /\ Cardinality(Succeeded(p)) < 3
         /\ rejection[p] =
              [message |-> "Insufficient intercepts to form a polygon",
               size |-> Cardinality(Succeeded(p)),
               failed |-> NumRays(p) - Cardinality(Succeeded(p)),
               total |-> NumRays(p)]
         /\ rejection[p].failed + rejection[p].size = rejection[p].total
         /\ boundaryMeters[p] = <<>>
    /\ (Done(p) /\ Cardinality(Succeeded(p)) < 3) => pc[p] = "rejected"
    /\ pc[p] # "rejected" => rejection[p] = NoRejection

\* A rejected invocation of which two rays succeeded.
C4_Witness ==
  \E p \in Procs :
    /\ pc[p] = "rejected"
    /\ rejection[p].size = 2
    /\ rejection[p].failed = NumRays(p) - 2

\* C5: once a status response reported COMPLETE or FAILED for a job, no
\* further status request is issued for it: the client is never again
\* waiting for a status response of that job.
C5_PollingStopsAtTerminalPhase ==
  \A p \in Procs :
    seen[p].terminal => pc[p] \notin {"wait", "status"}

\* C6: when the results request of a job reported FAILED itself fails
\* (transport, HTTP status, body that is not JSON), the ray ends at once as
\* a calculation failure with the generic message: it is no transport
\* error, no timeout, and polling does not go on.
C6_DetailFailureFallsBack ==
  \A p \in Procs :
    detail[p].http \in {"reject", "nonok", "badjson"} =>
      /\ pc[p] = "thrown"
      /\ thrown[p] = Err("Error", "WGC2 calculation failed", <<"Unknown error">>)

\* C7: when the results request of a job reported FAILED succeeds, the ray
\* ends with the error 'WGC2 calculation failed' carrying the upstream text:
\* the payload's error field, else its message field.
C7_FailedCarriesUpstreamText ==
  \A p \in Procs :
    detail[p].http = "json" =>
      /\ pc[p] = "thrown"
      /\ thrown[p].message = "WGC2 calculation failed"
      /\ detail[p].error # "" => thrown[p].detail = <<detail[p].error>>
      /\ (detail[p].error = "" /\ detail[p].message # "") =>
           thrown[p].detail = <<detail[p].message>>

\* A ray that ended on a FAILED job whose payload has a message and no error.
C7_Witness ==
  \E p \in Procs :
    /\ pc[p] = "thrown"
    /\ detail[p] = DetailResponse("json", "", "M_CALC")
    /\ thrown[p].detail = <<"M_CALC">>

\* C8: a job whose submission response carries COMPLETE or FAILED is never
\* polled: COMPLETE goes to the results request, FAILED to the extraction of
\* the failure, and no status request is issued.
C8_TerminalOnSubmitSkipsPolling ==
  \A p \in Procs :
    /\ seen[p].initial \in TerminalPhases =>
         /\ reqs[p].status = 0
         /\ pc[p] \notin {"wait", "status"}
    /\ seen[p].initial = "COMPLETE" => pc[p] \in {"results_now", "thrown", "returned"}
    /\ seen[p].initial = "FAILED" => pc[p] \in {"detail", "thrown"}

\* C9: a ray ends with the timeout error iff the attempt ceiling was reached
\* with every phase the status responses reported non-terminal; the timeout
\* never names FAILED as the last phase.
C9_TimeoutIffCeilingWhileNonTerminal ==
  \A p \in Procs :
    pc[p] = "thrown" =>
      /\ IsTimeout(thrown[p]) <=> (seen[p].exhausted /\ ~seen[p].terminal)
      /\ IsTimeout(thrown[p]) => thrown[p].detail # <<"FAILED">>

\* C10: no job gets more than MAX_POLL_ATTEMPTS status requests, and the
\* client sleeps for or awaits a status response only with the last phase
\* non-terminal and the attempts below the ceiling.
C10_PollingBoundedAndOnlyWhileNonTerminal ==
  \A p \in Procs :
    /\ reqs[p].status <= MAX_POLL_ATTEMPTS
    /\ pc[p] \in {"wait", "status"} =>
         /\ phase[p] \notin TerminalPhases
         /\ pollAttempts[p] < MAX_POLL_ATTEMPTS

\* C11: a status request that fails (transport, HTTP status, body that does
\* not parse, service status other than OK, error field) ends the ray at
\* once with an error: the client neither sleeps nor awaits another status
\* or results response of that job.
C11_FailedStatusEndsJob ==
  \A p \in Procs :
    seen[p].badStatus =>
      /\ pc[p] = "thrown"
      /\ thrown[p] # NoError
      /\ awaited(p) = NoRequest

\* A ray ended by a status response whose service status was not OK.
C11_Witness ==
  \E p \in Procs :
    /\ seen[p].badStatus
    /\ pc[p] = "thrown"
    /\ thrown[p].message = "WGC2 status check failed"

\* C12: a submission that fails (transport, HTTP status, body, service
\* status or error field, calculationId missing, empty or no string) ends
\* the ray at once with an error: no status or results request is issued.
C12_FailedSubmissionEndsRay ==
  \A p \in Procs :
    seen[p].badSubmit =>
      /\ pc[p] = "thrown"
      /\ thrown[p] # NoError
      /\ awaited(p) = NoRequest
      /\ reqs[p].status = 0
      /\ seen[p].results = NoResults

\* A ray ended by a submission response whose calculationId is empty.
C12_Witness ==
  \E p \in Procs :
    /\ seen[p].badSubmit
    /\ pc[p] = "thrown"
    /\ thrown[p] = Err("Error", "Invalid job ID returned from WGC2 API", <<"string">>)

\* The payload a results response carries: its result field, else the body.
PayloadOf(r) ==
  IF r.result # <<>> THEN r.result[1] ELSE r.body

\* A results response that arrived, parsed, with a payload that is not null
\* and carries no error field.
Usable(r) ==
  /\ r.http = "json"
  /\ PayloadOf(r).error = ""

\* C13: a job observed COMPLETE, on submission or by a status response, has
\* its results requested; the payload goes to the parser only if the
\* response arrived and parsed with a payload that is not null and carries
\* no error field, and otherwise the ray fails.
C13_CompleteNeedsUsablePayload ==
  \A p \in Procs :
    /\ seen[p].initial = "COMPLETE" =>
         \/ awaited(p) = resultsUrl(Handle(p, rayIndex[p]))
         \/ seen[p].results # NoResults
    /\ phase[p] = "COMPLETE" => awaited(p) = resultsUrl(Handle(p, rayIndex[p]))
    /\ seen[p].results # NoResults =>
         /\ pc[p] \in {"thrown", "returned"}
         /\ seen[p].parsed <=> Usable(seen[p].results)
         /\ pc[p] = "returned" => seen[p].parsed
         /\ ~seen[p].parsed =>
              /\ pc[p] = "thrown"
              /\ thrown[p].message \in
                   {"fetch failed", "Failed to fetch calculation results",
                    "Unexpected token in JSON", "Cannot read properties of null",
                    "WGC2 returned null result data",
                    "WGC2 calculation returned an error"}

\* A ray whose job was COMPLETE on submission and whose payload carried an
\* error field.
C13_Witness ==
  \E p \in Procs :
    /\ seen[p].initial = "COMPLETE"
    /\ seen[p].results.http = "json"
    /\ PayloadOf(seen[p].results).error = "E_RESULT"
    /\ pc[p] = "thrown"
    /\ thrown[p] = Err("Error", "WGC2 calculation returned an error", <<"E_RESULT">>)

\* C14: every status and results request of a ray is keyed by the handle
\* that ray's own submission returned, never by the handle of another ray.
C14_RequestsKeyedByOwnHandle ==
  \A p \in Procs :
    /\ awaited(p) # NoRequest =>
         /\ awaited(p).job = Handle(p, rayIndex[p])
         /\ \A k \in 1..NumRays(p) : k # rayIndex[p] => awaited(p).job # Handle(p, k)
    /\ jobId[p] # NoJob => jobId[p] = Handle(p, rayIndex[p])

\* A status request of the second ray, after the first ray's job gave a
\* point.
C14_Witness ==
  \E p \in Procs :
    /\ rayIndex[p] = 2
    /\ outcome[p][1] # NoPoint
    /\ awaited(p) = statusUrl(Handle(p, 2))
    /\ reqs[p].status >= 2

\* The rays of invocation p whose request was POSTed.
Started(p) ==
  {k \in 1..NumRays(p) : submitted[p][k] >= 1}

\* The rays of invocation p whose outcome fetchFootprintPolygon recorded.
Settled(p) ==
  Len(intercepts[p]) + errors[p]

\* C15: the rays are processed one at a time: the rays started are the
\* first rays, all of them settled but at most the last, and every request
\* and every sleep is that last ray's; a ray is started only with every
\* earlier ray settled.
C15_OneRayAtATime ==
  \A p \in Procs :
    Invoked(p) =>
      /\ Started(p) = 1..Cardinality(Started(p))
      /\ Cardinality(Started(p)) - Settled(p) \in {0, 1}
      /\ pc[p] \in {"submit", "wait", "status", "results_now", "results", "detail",
                    "thrown", "returned"} =>
           /\ Cardinality(Started(p)) = Settled(p) + 1
           /\ rayIndex[p] = Settled(p) + 1
      /\ pc[p] = "loop" => Cardinality(Started(p)) = Settled(p)

\* The third ray polls, with one earlier ray a success and one a failure.
C15_Witness ==
  \E p \in Procs :
    /\ pc[p] = "wait"
    /\ rayIndex[p] = 3
    /\ Len(intercepts[p]) = 1
    /\ errors[p] = 1

\* C16: with every fetch and every sleep returning, every invocation ends,
\* resolved or rejected, whatever the service answers.  Its status requests
\* are those of its rays' jobs: no ray is submitted twice and no job gets
\* more than MAX_POLL_ATTEMPTS status requests, which bounds their total by
\* the number of rays times MAX_POLL_ATTEMPTS.
C16_EveryInvocationEnds ==
  /\ \A p \in Procs : (pc[p] = "call") ~> Done(p)
  /\ [](\A p \in Procs :
          Invoked(p) =>
            /\ \A k \in 1..NumRays(p) : submitted[p][k] <= 1
            /\ reqs[p].status <= MAX_POLL_ATTEMPTS
            /\ reqs[p].status > 0 => rayIndex[p] \in Started(p))

\* An invocation that ended with every one of its rays failed.
C16_Witness ==
  \E p \in Procs :
    /\ Done(p)
    /\ rejection[p].failed = NumRays(p)
    /\ rejection[p].total = 4

\* What invocation p holds: the locals of its fetchFootprintPolygon,
\* fetchInterceptPointForRay and pollForCompletion and what it resolved or
\* rejected with.
Own(p) ==
  <<pc[p], boundaryVectors[p], rayIndex[p], intercepts[p], errors[p], jobId[p],
    pollAttempts[p], phase[p], thrown[p], returned[p], boundaryMeters[p],
    rejection[p], trianglesMeters[p]>>

\* The points (km) the service computed for those of the rays k..n of
\* invocation p that succeeded, in ray order.
RECURSIVE OwnPoints(_, _, _)
OwnPoints(p, k, n) ==
  IF k > n THEN <<>>
  ELSE IF outcome[p][k] = NoPoint THEN OwnPoints(p, k + 1, n)
  ELSE <<KmPoint(boundaryVectors[p][k], surface[p])>> \o OwnPoints(p, k + 1, n)

\* C17: of two invocations interleaved at their awaits, each collects only
\* the points of its own rays' jobs, in its own ray order, keys its
\* requests by its own handles, and resolves with those points; a step of
\* one invocation changes nothing the other holds.
C17_InvocationsIsolated ==
  /\ [](\A p \in Procs :
          Invoked(p) =>
            /\ intercepts[p] = OwnPoints(p, 1, rayIndex[p] - 1)
            /\ \A k \in 1..Len(intercepts[p]) : intercepts[p][k][3] = surface[p]
            /\ jobId[p] # NoJob => jobId[p] = Handle(p, rayIndex[p])
            /\ pc[p] = "resolved" =>
                 boundaryMeters[p] = toBoundaryMeters(OwnPoints(p, 1, NumRays(p))))
  /\ [][\A p, q \in Procs :
          p # q => (Own(p)' = Own(p) \/ Own(q)' = Own(q))]_vars

\* One invocation resolved with every ray a success while the other, one
\* point collected, sleeps between the status requests of its second ray.
C17_Witness ==
  /\ pc[1] = "resolved"
  /\ Len(boundaryMeters[1]) = 12
  /\ pc[2] = "wait"
  /\ rayIndex[2] = 2
  /\ Len(intercepts[2]) = 1
  /\ intercepts[2][1][3] # intercepts[1][1][3]

\* The kilometre values parsed for the rays k.. of invocation p that
\* succeeded, coordinate after coordinate in ray order.
RECURSIVE ParsedKm(_, _)
ParsedKm(p, k) ==
  IF k > NumRays(p) THEN <<>>
  ELSE IF outcome[p][k] = NoPoint THEN ParsedKm(p, k + 1)
  ELSE outcome[p][k] \o ParsedKm(p, k + 1)

\* The boundary coordinate a coordinate of the mesh is copied from: the
\* mesh is triangles of 3 vertices of 3 coordinates, triangle t (from 0)
\* made of the boundary vertices 0, t + 1 and t + 2.
MeshSource(i) ==
  LET t == (i - 1) \div 9
      slot == ((i - 1) % 9) \div 3
      c == (i - 1) % 3
      vertex == IF slot = 0 THEN 0 ELSE t + slot
  IN 3 * vertex + c + 1

\* Every coordinate of the mesh of invocation p is a boundary coordinate.
MeshCopiesBoundary(p) ==
  /\ trianglesMeters[p] # <<>> =>
       Len(trianglesMeters[p]) = 9 * (Len(boundaryMeters[p]) \div 3 - 2)
  /\ \A i \in 1..Len(trianglesMeters[p]) :
       trianglesMeters[p][i] = boundaryMeters[p][MeshSource(i)]

\* C18 as stated: every boundary coordinate is exactly 1000 times the
\* kilometre value parsed for it, and every coordinate of the mesh is a
\* boundary coordinate unchanged.
C18_ScaledExactly ==
  \A p \in Procs :
    pc[p] = "resolved" =>
      /\ Len(boundaryMeters[p]) = Len(ParsedKm(p, 1))
      /\ \A i \in 1..Len(boundaryMeters[p]) :
           boundaryMeters[p][i] = 1000 * ParsedKm(p, 1)[i]
      /\ MeshCopiesBoundary(p)

\* C18, amended: the scaling happens once, into 32-bit floats: every
\* boundary coordinate is the 32-bit float nearest to 1000 times the
\* kilometre value parsed for it, that product itself where it is a 32-bit
\* float, and every coordinate of the mesh is a boundary coordinate
\* unchanged.
C18_ScaledOnceToFloat32 ==
  \A p \in Procs :
    pc[p] = "resolved" =>
      /\ Len(boundaryMeters[p]) = Len(ParsedKm(p, 1))
      /\ \A i \in 1..Len(boundaryMeters[p]) :
           /\ boundaryMeters[p][i] = fround(1000 * ParsedKm(p, 1)[i])
           /\ fround(1000 * ParsedKm(p, 1)[i]) = 1000 * ParsedKm(p, 1)[i] =>
                boundaryMeters[p][i] = 1000 * ParsedKm(p, 1)[i]
           /\ Abs(boundaryMeters[p][i] - 1000 * ParsedKm(p, 1)[i]) * 16777216
                <= Abs(1000 * ParsedKm(p, 1)[i])
      /\ MeshCopiesBoundary(p)

\* A triangulated boundary one of whose coordinates, 134219 km, is stored
\* as 134219008 m.
C18_Witness ==
  \E p \in Procs :
    /\ pc[p] = "resolved"
    /\ trianglesMeters[p] # <<>>
    /\ ParsedKm(p, 1)[3] = 134219
    /\ boundaryMeters[p][3] = 134219008
    /\ trianglesMeters[p][3] = 134219008

\* The positions at which direction d stands among the rays of invocation p.
PositionsOf(p, d) ==
  {k \in 1..NumRays(p) : boundaryVectors[p][k] = d}

\* The four corners of the rectangle sampled with s samples per edge.
Corners(s) ==
  {Dir(-s, -s, s), Dir(s, -s, s), Dir(s, s, s), Dir(-s, s, s)}

OnPerimeter(d) ==
  /\ Abs(d.x) <= d.den
  /\ Abs(d.y) <= d.den
  /\ Abs(d.x) = d.den \/ Abs(d.y) = d.den

\* Directions d and e are neighbours along the perimeter: one sampling
\* step, 2/samplesPerEdge of a half-extent, apart along one edge.
Neighbours(d, e) ==
  /\ OnPerimeter(d)
  /\ OnPerimeter(e)
  /\ \/ d.x = e.x /\ Abs(d.x) = d.den /\ Abs(d.y - e.y) = 2
     \/ d.y = e.y /\ Abs(d.y) = d.den /\ Abs(d.x - e.x) = 2

\* C20: the generator walks the bottom edge left to right with both its
\* corners, then the right edge upwards, the top edge right to left and
\* the left edge downwards, each without the corner already emitted; every
\* two consecutive rays, and the last with the first, are neighbours along
\* the perimeter.
C20_OneRotationalOrder ==
  \A p \in Procs :
    Invoked(p) =>
      LET s == samplesPerEdge[p]
          v == boundaryVectors[p]
      IN /\ \A k \in 1..(s + 1) : v[k] = Dir(-s + 2 * (k - 1), -s, s)
         /\ \A k \in 1..s : v[s + 1 + k] = Dir(s, -s + 2 * k, s)
         /\ \A k \in 1..s : v[2 * s + 1 + k] = Dir(s - 2 * k, s, s)
         /\ \A k \in 1..(s - 1) : v[3 * s + 1 + k] = Dir(-s, s - 2 * k, s)
         /\ \A k \in 1..(Len(v) - 1) : Neighbours(v[k], v[k + 1])
         /\ Neighbours(v[Len(v)], v[1])

\* The rays of 3 samples per edge, the last of them one step above the
\* first on the left edge.
C20_Witness ==
  \E p \in Procs :
    /\ samplesPerEdge[p] = 3
    /\ pc[p] = "rejected"
    /\ boundaryVectors[p][12] = Dir(-3, -1, 3)
    /\ boundaryVectors[p][1] = Dir(-3, -3, 3)

\* The directions generated for invocation p.
Generated(p) ==
  {boundaryVectors[p][k] : k \in 1..NumRays(p)}

\* C21: whatever samplesPerEdge is, the rays generated include the four
\* corners (+-halfHoriz, +-halfVert) and every ray has its horizontal angle
\* within [-halfHoriz, halfHoriz] and its vertical angle within
\* [-halfVert, halfVert]: the extreme angles reached are the half-angles
\* themselves on both axes and in both senses.
C21_ExtentIndependentOfDensity ==
  \A p \in Procs :
    Invoked(p) =>
      /\ \A d \in Generated(p) :
           /\ d.den > 0
           /\ -d.den <= d.x /\ d.x <= d.den
           /\ -d.den <= d.y /\ d.y <= d.den
      /\ \A sx, sy \in {-1, 1} :
           \E d \in Generated(p) : d.x = sx * d.den /\ d.y = sy * d.den

\* The 16 rays of 4 samples per edge, the middle of the bottom edge and the
\* top right corner among them.
C21_Witness ==
  \E p \in Procs :
    /\ samplesPerEdge[p] = 4
    /\ NumRays(p) = 16
    /\ boundaryVectors[p][3] = Dir(0, -4, 4)
    /\ boundaryVectors[p][9] = Dir(4, 4, 4)

\* The coordinates of vertex k (from 0) of the vertex list given.
Coords(k) ==
  <<inVertices[k + 1].x, inVertices[k + 1].y, inVertices[k + 1].z>>

\* The three coordinates of corner c (from 0) of triangle i (from 1) of a
\* mesh.
CornerOf(mesh, i, c) ==
  <<mesh[9 * (i - 1) + 3 * c + 1], mesh[9 * (i - 1) + 3 * c + 2],
    mesh[9 * (i - 1) + 3 * c + 3]>>

\* C22: of a boundary of n >= 3 points triangulateFanXYZ returns n - 2
\* triangles, 9 (n - 2) values, triangle i being (p0, p[i], p[i+1]) in that
\* order; every triangle begins with p0 and the last corner of a triangle is
\* the middle corner of the next one, so that they share the edge p0-p[i+1].
C22_FanOfNMinusTwoTriangles ==
  LET n == Len(inVertices)
  IN (outFan # NotCalled /\ n >= 3) =>
       /\ outFan.ok
       /\ Len(outFan.value) = 9 * (n - 2)
       /\ \A i \in 1..(n - 2) :
            /\ CornerOf(outFan.value, i, 0) = Coords(0)
            /\ CornerOf(outFan.value, i, 1) = Coords(i)
            /\ CornerOf(outFan.value, i, 2) = Coords(i + 1)
       /\ \A i \in 1..(n - 3) :
            /\ CornerOf(outFan.value, i, 0) = CornerOf(outFan.value, i + 1, 0)
            /\ CornerOf(outFan.value, i, 2) = CornerOf(outFan.value, i + 1, 1)

\* The square fanned from its first corner into two triangles.
C22_Witness ==
  /\ inVertices = <<Vertex(0, 0, 0), Vertex(3, 0, 0), Vertex(3, 3, 0), Vertex(0, 3, 0)>>
  /\ outFan.ok
  /\ outFan.value = <<0, 0, 0, 3, 0, 0, 3, 3, 0,
                      0, 0, 0, 3, 3, 0, 0, 3, 0>>

\* C23: of a boundary of fewer than 3 points triangulateFanXYZ raises the
\* 'Insufficient vertices' error, which names the number of vertices, and
\* returns no mesh.
C23_TooFewVerticesRaise ==
  LET n == Len(inVertices)
  IN (outFan # NotCalled /\ n < 3) =>
       /\ ~outFan.ok
       /\ outFan.value = <<>>
       /\ outFan.error.name = "Error"
       /\ outFan.error.message = "Insufficient vertices for triangulation"
       /\ outFan.error.detail = <<n>>

\* Two points given, the error raised.
C23_Witness ==
  /\ inVertices = <<Vertex(0, 0, 0), Vertex(3, 3, 0)>>
  /\ outFan = Threw(Err("Error", "Insufficient vertices for triangulation", <<2>>))

\* C24: the perimeter of a boundary of 2 points is 0.
C24_TwoPointsMeasureZero ==
  (outPerimeter # NotCalled /\ Len(inVertices) = 2) =>
    outPerimeter.value = Length(0, <<>>)

\* The distance from vertex j to vertex k (from 1) of the vertex list given.
Distance(j, k) ==
  LET a == inVertices[j]
      b == inVertices[k]
  IN sqrt((b.x - a.x) * (b.x - a.x) + (b.y - a.y) * (b.y - a.y)
          + (b.z - a.z) * (b.z - a.z))

\* The distances from each of the first k vertices to the one after it,
\* added up.
RECURSIVE Along(_)
Along(k) ==
  IF k = 0 THEN Length(0, <<>>) ELSE plus(Along(k - 1), Distance(k, k + 1))

\* The vertex list is a square of side 3 walked along its sides.
IsSquare ==
  /\ Len(inVertices) = 4
  /\ {inVertices[k] : k \in 1..4}
       = {Vertex(0, 0, 0), Vertex(3, 0, 0), Vertex(3, 3, 0), Vertex(0, 3, 0)}
  /\ \A k \in 1..4 : Distance(k, (k % 4) + 1) = Length(3, <<>>)

\* C25: the perimeter of a boundary of n >= 3 points is the sum of its n
\* distances, from each point to the next and from the last point back to
\* the first; that of a square of side s given as 4 points is 4 s; that of
\* fewer than 2 points is 0.
C25_PerimeterOfClosedPolygon ==
  LET n == Len(inVertices)
  IN outPerimeter # NotCalled =>
       /\ outPerimeter.ok
       /\ n >= 3 => outPerimeter.value = plus(Along(n - 1), Distance(n, 1))
       /\ IsSquare => outPerimeter.value = Length(4 * 3, <<>>)
       /\ n < 2 => outPerimeter.value = Length(0, <<>>)

\* The square of side 3 measured: 12.
C25_Witness ==
  /\ IsSquare
  /\ outPerimeter = Returned(Length(12, <<>>))

\* The fields of the body of the answer to invocation p.
Fields(p) ==
  DOMAIN response[p].body

\* C26: every successful answer of the ray-sampling route carries the
\* boundary, the mesh, the counts of boundary points and of triangles, and
\* the length of the perimeter in metres.
C26_ResponseCarriesPerimeter ==
  \A p \in Procs :
    response[p].status = 200 =>
      /\ {"boundaryMeters", "trianglesMeters", "count"} \subseteq Fields(p)
      /\ {"boundary", "triangles"} \subseteq DOMAIN response[p].body.count
      /\ \E f \in Fields(p) \ {"boundaryMeters", "trianglesMeters", "count"} :
           response[p].body[f] \in Nat

\* C27: every successful answer of the ray-sampling route counts at least 3
\* boundary points and 2 triangles fewer than boundary points, carries 3
\* numbers per boundary point and 9 per triangle; the triangulation of a
\* boundary the invocation resolved with never raises, so the route answers
\* a resolved invocation with nothing but that.
C27_CountsMatchArrays ==
  \A p \in Procs :
    /\ pc[p] = "resolved" =>
         /\ triangulateFanXYZ(boundaryMeters[p]).ok
         /\ response[p].status \in {0, 200}
    /\ response[p].status = 200 =>
         LET body == response[p].body
         IN /\ body.count.boundary >= 3
            /\ body.count.triangles = body.count.boundary - 2
            /\ Len(body.boundaryMeters) = 3 * body.count.boundary
            /\ Len(body.trianglesMeters) = 9 * body.count.triangles
            /\ body.boundaryMeters = boundaryMeters[p]
            /\ body.trianglesMeters = trianglesMeters[p]

\* An answer with the 4 points of the smallest footprint and their 2
\* triangles.
C27_Witness ==
  \E p \in Procs :
    /\ response[p].status = 200
    /\ response[p].body.count = [boundary |-> 4, triangles |-> 2]
    /\ Len(response[p].body.trianglesMeters) = 18

\* The payload given is tabular.
Tabular ==
  inResultData.hasColumns /\ inResultData.hasRows

\* The outputIDs among the columns of the payload given.
OutputIDs ==
  {inResultData.columns[k] : k \in 1..Len(inResultData.columns)}

\* The payload given was parsed, and it is tabular with X, Y and Z among
\* its columns.
ParsedWithColumns ==
  /\ outPoint # NotCalled
  /\ Tabular
  /\ {"X", "Y", "Z"} \subseteq OutputIDs

\* The position (from 1) of the column id.
PositionOf(id) ==
  CHOOSE k \in 1..Len(inResultData.columns) : inResultData.columns[k] = id

\* The first row of the payload given holds a cell for each of X, Y and Z.
LongEnough ==
  /\ inResultData.rows # <<>>
  /\ inResultData.rows[1].isArray
  /\ \A id \in {"X", "Y", "Z"} : PositionOf(id) <= Len(inResultData.rows[1].cells)

\* The cell of the first row in the column id.
Located(id) ==
  inResultData.rows[1].cells[PositionOf(id)]

\* C28: a tabular payload without a column whose outputID is exactly X,
\* exactly Y or exactly Z makes parseInterceptPoint raise the error that
\* lists the outputIDs present, and gives no point.
C28_MissingColumnRaises ==
  (outPoint # NotCalled /\ Tabular /\ ~({"X", "Y", "Z"} \subseteq OutputIDs)) =>
    /\ ~outPoint.ok
    /\ outPoint.value = NoPoint
    /\ outPoint.error.message = "Could not find X, Y, Z columns in result data"
    /\ outPoint.error.detail = inResultData.columns

\* Columns in small letters, and a row that holds a number for each.
C28_Witness ==
  /\ inResultData.columns = <<"x", "y", "z">>
  /\ Len(inResultData.rows) = 1
  /\ inResultData.rows[1] = Row(TRUE, [k \in 1..3 |-> Cell("number", 10 * k)])
  /\ outPoint = Threw(Err("Error", "Could not find X, Y, Z columns in result data",
                          <<"x", "y", "z">>))

\* C29: parseInterceptPoint reads the point from the first row alone, at
\* the positions of the columns X, Y and Z wherever they stand, whatever
\* rows follow; it fails when there is no row and when the first row is no
\* array or too short for one of the three positions.
C29_FirstRowAtLocatedColumns ==
  ParsedWithColumns =>
    /\ inResultData.rows = <<>> =>
         /\ ~outPoint.ok
         /\ outPoint.error.message = "No rows in WGC2 result data"
    /\ (inResultData.rows # <<>> /\ ~LongEnough) =>
         /\ ~outPoint.ok
         /\ outPoint.error.message = "Invalid row format in WGC2 result data"
    /\ outPoint.ok =>
         /\ LongEnough
         /\ outPoint.value = <<Located("X").n, Located("Y").n, Located("Z").n>>
    /\ inResultData.rows # <<>> =>
         outPoint = parseInterceptPoint([inResultData EXCEPT !.rows = <<@[1]>>])

\* X in the third of four columns, two rows: the point is read from the
\* first row, Y from its second cell and Z from its fourth.
C29_Witness ==
  /\ inResultData.columns = <<"T", "Y", "X", "Z">>
  /\ Len(inResultData.rows) = 2
  /\ outPoint = Returned(<<30, 20, 40>>)

\* C30: parseInterceptPoint accepts each of the three located values when
\* it is a number or a text that is a number, and fails with an error when
\* one of them is anything else: a text that is a number only in part, any
\* other text, null.
C30_OnlyNumbersAccepted ==
  (ParsedWithColumns /\ LongEnough) =>
    IF \A id \in {"X", "Y", "Z"} : Located(id).kind \in {"number", "numtext"}
    THEN outPoint = Returned(<<Located("X").n, Located("Y").n, Located("Z").n>>)
    ELSE ~outPoint.ok

\* C31: a payload that is not tabular, without a columns array or without
\* a rows array, makes parseInterceptPoint fail with the 'Unsupported WGC2
\* result format' error whatever else it holds; a point is returned for
\* tabular payloads only.
C31_OtherShapesUnsupported ==
  outPoint # NotCalled =>
    /\ ~Tabular => outPoint = Threw(Err("Error", "Unsupported WGC2 result format", <<>>))
    /\ outPoint.ok => Tabular

\* Rows of three numbers without columns, refused.
C31_Witness ==
  /\ ~inResultData.hasColumns
  /\ inResultData.hasRows
  /\ inResultData.rows = <<Row(TRUE, [k \in 1..3 |-> Cell("number", 10 * k)])>>
  /\ outPoint = Threw(Err("Error", "Unsupported WGC2 result format", <<>>))

\* C35: an invocation that ends with fewer than 3 boundary points is
\* answered by the route with the status 422 and the 'Insufficient
\* intercepts to form a polygon' error, not with the status 500 of an
\* unexpected error.
C35_TooFewPointsAnswered422 ==
  \A p \in Procs :
    (pc[p] = "rejected" /\ response[p] # NoResponse) =>
      /\ Len(intercepts[p]) < MIN_INTERCEPTS
      /\ response[p].status = 422
      /\ response[p].body.error.message = "Insufficient intercepts to form a polygon"

\* The query q has a configuration error: utc is missing, kernelSetId is
\* no number, a half-angle is not positive or not finite, or samplesPerEdge
\* is no number or less than 1.
ConfigurationError(q) ==
  \/ q.utc.kind = "absent"
  \/ q.kernelSetId.kind \in {"text", "infinity"}
  \/ \E h \in {q.hh, q.hv} :
       \/ h.kind \in {"text", "infinity"}
       \/ h.kind \in {"numtext", "prefixtext"} /\ h.n <= 0
  \/ q.spe.kind \in {"text", "infinity"}
  \/ q.spe.kind \in {"numtext", "prefixtext"} /\ q.spe.n < 1

\* No request went to the service for invocation p.
NoNetwork(p) ==
  /\ \A k \in DOMAIN submitted[p] : submitted[p][k] = 0
  /\ \A k \in DOMAIN posted[p] : posted[p][k] = NoBody
  /\ jobId[p] = NoJob

\* C32: a request whose query has a configuration error is refused with the
\* status 400 and nothing is asked of the service for it.
C32_ConfigurationErrorsRefused ==
  \A p \in Procs :
    (pc[p] \notin {"unused", "request"} /\ ConfigurationError(query[p])) =>
      /\ pc[p] = "refused"
      /\ response[p].status = 400
      /\ NoNetwork(p)

\* C33: the answers to failed requests tell the causes apart: the answer to
\* a request that failed because the service was out of reach differs, in
\* its status or in its body, from the answer to a request that failed
\* because the service rejected the calculations.
C33_CausesDistinguishable ==
  (response[1] # NoResponse /\ response[2] # NoResponse) =>
    \/ response[1].status # response[2].status
    \/ response[1].body # response[2].body

\* The rays of invocation p for which a body was POSTed.
Posted(p) ==
  {k \in DOMAIN posted[p] : posted[p][k] # NoBody}

\* A body without its direction.
Undirected(body) ==
  [body EXCEPT !.directionVectorX = 0, !.directionVectorY = 0,
               !.directionVectorZ = 0]

\* C34: the bodies POSTed for the rays of one footprint are equal in all but
\* the three components of the direction: calculation type, time, kernel
\* set, observer, target, frames, aberration corrections, shape and state
\* representation are those of the request for every ray; the direction is
\* the ray's own, given as a vector in the instrument frame.
C34_RequestsDifferInDirectionOnly ==
  \A p \in Procs :
    \A k \in Posted(p) :
      LET body == posted[p][k]
          ps == paramsOf(query[p])
      IN /\ \A j \in Posted(p) : Undirected(posted[p][j]) = Undirected(body)
         /\ body.calculationType = "SURFACE_INTERCEPT_POINT"
         /\ body.times = <<ps.utc>>
         /\ body.kernels = <<[type |-> "KERNEL_SET", id |-> ps.kernelSetId.n]>>
         /\ body.observer = ps.observer
         /\ body.target = "BENNU"
         /\ body.shape1 = ps.shape
         /\ body.stateRepresentation = ps.stateRepresentation
         /\ body.directionVectorType = "VECTOR"
         /\ body.directionFrame = "ORX_OCAMS_POLYCAM"
         /\ <<body.directionVectorX, body.directionVectorY, body.directionVectorZ>>
              = <<boundaryVectors[p][k].x, boundaryVectors[p][k].y,
                  boundaryVectors[p][k].den>>

\* The 8 rays of a footprint on the ellipsoid, kernel set 7, all POSTed;
\* the second of them looks down the vertical centre line.
C34_Witness ==
  \E p \in Procs :
    /\ Posted(p) = 1..8
    /\ posted[p][1].shape1 = "ELLIPSOID"
    /\ posted[p][8].kernels[1].id = 7
    /\ posted[p][2].directionVectorX = 0
    /\ posted[p][1] # posted[p][8]

\* C36: a job's first status request goes out without a wait and each later
\* one after one wait of POLL_INTERVAL_MS: a job that issued k status
\* requests slept k - 1 times, (k - 1) POLL_INTERVAL_MS in all; a wait is
\* begun only after a status request and ends in the next status request,
\* never in the end of the job.
C36_OneFixedWaitBetweenStatusRequests ==
  /\ [](\A p \in Procs :
          /\ reqs[p].status = 0 => reqs[p].waits = 0 /\ pc[p] # "wait"
          /\ reqs[p].status > 0 => reqs[p].waits = reqs[p].status - 1
          /\ reqs[p].slept = reqs[p].waits * POLL_INTERVAL_MS)
  /\ [][\A p \in Procs :
          /\ pc[p] = "wait" /\ pc'[p] # "wait" =>
               /\ pc'[p] = "status"
               /\ reqs'[p].status = reqs[p].status + 1
               /\ reqs'[p].waits = reqs[p].waits + 1
          /\ reqs'[p].status > reqs[p].status /\ reqs[p].status > 0 =>
               pc[p] = "wait"]_vars

\* The twelfth status request of a job, after eleven waits.
C36_Witness ==
  \E p \in Procs :
    /\ pc[p] = "status"
    /\ reqs[p] = [status |-> 12, waits |-> 11, slept |-> 55000]

\* C37: the single-calculation route answers 504 exactly when twelve status
\* responses showed a phase that is not terminal; once FAILED was seen, at
\* submission or in a status response, no further status request is issued
\* and the answer is 502, or 404 if the fetch of the failed calculation's
\* results returned 404, and never 504.
C37_TimeoutApartFromFailure ==
  /\ calc.status = 504 <=>
       /\ calc.pc = "answered"
       /\ calc.observed = maxPollAttempts
       /\ calc.failedIn = ""
  /\ calc.failedIn # "" => calc.late = 0
  /\ calc.failedIn # "" /\ calc.pc = "answered" =>
       \/ calc.status = 502
       \/ calc.status = 404 /\ calc.detailHttp = "notfound"

\* C38: pollForCompletion never throws its last error, 'Unexpected polling
\* completion state'; it returns a payload only from the loop, after a
\* status response with the phase COMPLETE and a results response it
\* accepts; and when the loop ends without a return the last phase is not
\* COMPLETE, twelve status requests were issued and the error is
\* 'Calculation did not complete'.
C38_LastErrorUnreachable ==
  /\ [](\A p \in Procs :
          /\ thrown[p].message # "Unexpected polling completion state"
          /\ thrown[p].message =
               "Calculation did not complete within MAX_POLL_ATTEMPTS attempts" =>
               /\ thrown[p].detail # <<"COMPLETE">>
               /\ seen[p].exhausted)
  /\ [][\A p \in Procs :
          /\ pc[p] \in {"wait", "status", "results", "detail"}
               /\ seen'[p].parsed /\ ~seen[p].parsed =>
               /\ pc[p] = "results"
               /\ phase[p] = "COMPLETE"
               /\ seen[p].terminal
               /\ readResults(seen'[p].results).ok
          /\ pc[p] \in {"status", "detail"} /\ pc'[p] = "thrown"
               /\ pollAttempts[p] = MAX_POLL_ATTEMPTS - 1
               /\ seen'[p].exhausted /\ ~seen'[p].badStatus
               /\ (pc[p] = "detail" => detail'[p].http = "nonok") =>
               /\ thrown'[p].message =
                    "Calculation did not complete within MAX_POLL_ATTEMPTS attempts"
               /\ thrown'[p].detail \in {<<"PENDING">>, <<"COMPUTING">>, <<"FAILED">>}]_vars

\* The loop ends after its twelfth iteration, whose status response showed
\* the phase FAILED and whose results could not be fetched, in an
\* invocation one of whose earlier rays returned a point.
C38_Witness ==
  \E p \in Procs :
    /\ pc[p] = "thrown"
    /\ thrown[p] = Err("Error",
                       "Calculation did not complete within MAX_POLL_ATTEMPTS attempts",
                       <<"FAILED">>)
    /\ seen[p].exhausted
    /\ intercepts[p] # <<>>

\* The coordinates an index list names in a flat array of x, y, z.
Dereferenced(indices, coordinates) ==
  [k \in 1..(3 * Len(indices)) |->
     coordinates[3 * indices[((k - 1) \div 3) + 1] + ((k - 1) % 3) + 1]]

\* C39: for the same points the two fan triangulators agree: the index list
\* of createFanTriangulation holds the 3(n - 2) indices 0, i, i + 1 for
\* i = 1 .. n - 2 and names, in the points triangulateFanXYZ was given,
\* exactly the coordinates triangulateFanXYZ returns; createFanTriangulation
\* returns null exactly when triangulateFanXYZ throws.
C39_FanTriangulatorsAgree ==
  outFan # NotCalled /\ outIndices # NotCalled =>
    LET n == Len(inVertices)
        made == outIndices.value
    IN /\ made.null <=> ~outFan.ok
       /\ made.null <=> n < 3
       /\ ~made.null =>
            /\ Len(made.indices) = 3 * (n - 2)
            /\ \A i \in 1..(n - 2) :
                 /\ made.indices[3 * i - 2] = 0
                 /\ made.indices[3 * i - 1] = i
                 /\ made.indices[3 * i] = i + 1
            /\ outFan.value = Dereferenced(made.indices, toFloat32Array(inVertices))

\* Both triangulators were given four points, not all of them equal.
C39_Witness ==
  /\ Len(inVertices) = MaxVertices
  /\ inVertices[2] # inVertices[3]
  /\ inVertices[1] # inVertices[4]
  /\ outFan.ok
  /\ outIndices.ok
  /\ ~outIndices.value.null
  /\ Len(outFan.value) = 18

\* C40: in the viewer page at most one invocation of fetchFootprint is in
\* flight; while one is in flight the page shows that it is loading and shows
\* no error; once an invocation has settled and none is in flight the page is
\* not loading and an error is set exactly if the invocation that settled
\* last failed.
C40_OneFetchInFlight ==
  page.mounted =>
    /\ Len(page.flights) <= 1
    /\ Len(page.flights) = 1 =>
         /\ showsLoading(page)
         /\ ~showsErrorPanel(page)
         /\ page.error = NoMessage
    /\ Len(page.flights) = 0 /\ page.last # "none" =>
         /\ ~showsLoading(page)
         /\ page.error # NoMessage <=> page.last = "failed"
         /\ showsErrorPanel(page) <=> page.last = "failed"

\* The third invocation is in flight, begun from the error panel after two
\* invocations that failed.
C40_Witness ==
  /\ page.mounted
  /\ page.started = MaxFetches
  /\ Len(page.flights) = 1
  /\ page.last = "failed"

====
